---------------------------- MODULE Spec2Model ----------------------------
(***************************************************************************)
(* A model of the math-quiz application: the student's attempt ledger      *)
(* (useStudentSubmissions), the attempt policy (getMaxAttempts,            *)
(* getAttemptInfo), and the student session (startQuiz, handleAnswerChange,*)
(* submitQuiz with its grading call and its write to the submissions       *)
(* collection), the attempt history (useStudentAttempts, attemptsByQuiz),  *)
(* the teacher's feed (useTeacherSubmissions), two sessions of one student *)
(* with the teacher's deleteSubmissionAttempt, and the grading proxy       *)
(* (netlify/functions/gradeQuiz.js).                                       *)
(*                                                                         *)
(* Specifications:                                                         *)
(*   SpecLedger      the snapshot fold of useStudentSubmissions over        *)
(*                   submission documents as the application stores them    *)
(*   SpecLedgerRaw   the same fold over documents with arbitrary            *)
(*                   attemptNumber fields (negative, non-numeric)           *)
(*   SpecAttemptInfo getAttemptInfo applied to arbitrary quiz arguments     *)
(*   Spec            one student session against the document store         *)
(*   SpecStudentViewJsx  the same session with the submitQuiz of            *)
(*                   src/src/components/Student/StudentView.jsx:285-332     *)
(*   SpecHistory     useStudentAttempts and attemptsByQuiz over snapshots   *)
(*                   of attempt documents                                   *)
(*   SpecFeed        useTeacherSubmissions: the quiz listener, the          *)
(*                   per-quiz listeners and the merged feed                 *)
(*   SpecTwoSessions two StudentView sessions of one student sharing the    *)
(*                   submissions collection, and the teacher's deletion     *)
(*   SpecProxy       one invocation of the grading proxy's handler          *)
(*   SpecEditor      the teacher's dashboard: classes, the quiz editor and   *)
(*                   saveQuiz                                               *)
(*   SpecOneSession  one session of the student on one quiz                 *)
(*   SpecOneSessionAndTeacher  the same with the teacher deleting attempts  *)
(*   SpecMigration   the dashboards' legacy-migration effect as it runs,     *)
(*                   with fairness                                          *)
(*   SpecDefaultClass  the runs of getOrCreateDefaultClass, were the        *)
(*                   effect to find the quizzes delivered                   *)
(*   SpecGradeCall   submitQuiz's call of gradeSubmission, the handler it   *)
(*                   invokes and the write that follows, with fairness      *)
(***************************************************************************)
EXTENDS Integers, Sequences, FiniteSets, TLC

VARIABLES
    \* ---- ledger harness (useStudentSubmissions alone) ----
    ledgerSnap,       \* the documents of the last snapshot delivered, in query order
    summaryByQuiz,    \* the hook's React state: quizId -> summary entry
    ledgerPrevKeys,   \* history: the quiz ids of the summary published before this one
    \* ---- attempt-policy harness (getAttemptInfo alone) ----
    infoQuiz,         \* the quiz argument
    infoSummary,      \* the submissionSummary the component holds
    infoResult,       \* what the call produced: a result, or a thrown TypeError
    \* ---- the document store ----
    quizStore,        \* quizzes collection: quiz id -> quiz document
    submissions,      \* the student's documents of the submissions collection, in query order
    \* ---- the student's client: data delivered by the listeners ----
    selectedClassId,  \* '' until the student's classes have arrived
    allClassQuizzes,  \* quiz id -> quiz document, as of the last quiz snapshot
    \* ---- the student's client: StudentView state ----
    view,             \* 'list' | 'quiz' | 'results'
    activeQuiz,       \* the quiz object captured by startQuiz, or null
    studentAnswers,   \* question id -> answer text
    answersRef,       \* which object studentAnswers holds: see NoRef
    gradingResult,    \* null, or the evaluations shown
    isSubmitting,
    viewingResult,
    shuffledQuestions,\* the question sequence presented
    submitRun,        \* the submitQuiz call in flight: its closure and how far it got
    lastTry,          \* history: the quiz the student last tried to start
    \* ---- attempt-history harness (useStudentAttempts, attemptsByQuiz) ----
    attemptDocs,      \* the documents of the last snapshot delivered, in query order
    submissionHistory,\* the hook's React state: the documents, sorted
    \* ---- teacher-feed harness (useTeacherSubmissions) ----
    feedOwned,        \* store: the ids of the quizzes whose teacherId is the teacher
    feedDocs,         \* store: the submissions collection, in document order
    feedListeners,    \* hook: the quiz ids with a live per-quiz listener
    submissionsByQuiz,\* hook: the Map quizId -> rows, as a list in insertion order
    teacherSubmissions,\* hook: the React state `submissions`
    \* ---- two sessions of one student, and the teacher, on one quiz ----
    roomQuiz,         \* the quiz document
    roomStore,        \* the student's submissions of the quiz, in document order
    roomSnap,         \* session -> the documents of the last snapshot delivered to it
    roomSummary,      \* session -> the summary of useStudentSubmissions there
    roomSession,      \* session -> where its StudentView is, and its submitQuiz closure
    roomGaveBack,     \* history: the session whose snapshot, delivered by the last step,
                      \* was its previous one less one document ('' if none)
    \* ---- the grading proxy (netlify/functions/gradeQuiz.js) ----
    proxyEvent,       \* the invocation: environment, httpMethod, body
    proxyRun,         \* how far the handler is, the prompt it built, its model calls
    proxyResponse,    \* what the handler returned, once it has
    gradeCall,        \* the client whose submitQuiz sent the request, if one did
    \* ---- the teacher's dashboard: classes and the quiz editor ----
    edNow,            \* Date.now(), in milliseconds
    edClassStore,     \* classes collection: class id -> class document
    edClasses,        \* useTeacherClasses: the rows of the last snapshot delivered
    edSelectedClassId,\* 'all' or a class id
    edView,           \* 'list' | 'new'
    edActiveQuiz,     \* the quiz in the editor, or null
    edWritten,        \* the document of the last setDoc to 'quizzes' that resolved
    edAlert,          \* the text of the last alert()
    \* ---- the teacher's dashboards: the legacy migration ----
    mgClassStore,     \* classes collection: the set of class documents
    mgQuizStore,      \* quizzes collection: quiz id -> classId ('' when it has none)
    mgDash            \* per open dashboard: its hooks' state and its migration run

ledgerVars  == <<ledgerSnap, summaryByQuiz, ledgerPrevKeys>>
infoVars    == <<infoQuiz, infoSummary, infoResult>>
storeVars   == <<quizStore, submissions>>
clientVars  == <<selectedClassId, allClassQuizzes>>
sessionVars == <<view, activeQuiz, studentAnswers, answersRef, gradingResult,
                 isSubmitting, viewingResult, shuffledQuestions>>
sysVars     == <<storeVars, clientVars, sessionVars, submitRun, lastTry>>

historyVars == <<attemptDocs, submissionHistory>>

feedVars == <<feedOwned, feedDocs, feedListeners, submissionsByQuiz, teacherSubmissions>>

roomVars == <<roomQuiz, roomStore, roomSnap, roomSummary, roomSession, roomGaveBack>>

proxyVars == <<proxyEvent, proxyRun, proxyResponse, gradeCall>>
editorVars == <<edNow, edClassStore, edClasses, edSelectedClassId, edView, edActiveQuiz,
                edWritten, edAlert>>
migrationVars == <<mgClassStore, mgQuizStore, mgDash>>
teacherVars == <<editorVars, migrationVars>>

\* the harnesses' state that no step of the session touches
sideVars == <<infoVars, historyVars, feedVars, roomVars, proxyVars, teacherVars>>

vars == <<ledgerVars, sideVars, sysVars>>

\* what each harness leaves alone
notLedgerVars  == <<sideVars, sysVars>>
notInfoVars    == <<ledgerVars, sysVars, historyVars, feedVars, roomVars, proxyVars, teacherVars>>
notHistoryVars == <<ledgerVars, sysVars, infoVars, feedVars, roomVars, proxyVars, teacherVars>>
notFeedVars    == <<ledgerVars, sysVars, infoVars, historyVars, roomVars, proxyVars, teacherVars>>
notRoomVars    == <<ledgerVars, sysVars, infoVars, historyVars, feedVars, proxyVars, teacherVars>>
notProxyVars   == <<ledgerVars, sysVars, infoVars, historyVars, feedVars, roomVars, teacherVars>>
notEditorVars  == <<ledgerVars, sysVars, infoVars, historyVars, feedVars, roomVars, proxyVars,
                    migrationVars>>
notMigrationVars == <<ledgerVars, sysVars, infoVars, historyVars, feedVars, roomVars, proxyVars,
                      editorVars>>

---------------------------------------------------------------------------
(* Bounds of the model *)

\* longest snapshot the ledger harness delivers
MaxSnapshotLen == 3
\* largest count of a summary entry handed to getAttemptInfo
MaxUsedCount == 4
\* most submissions the student creates
MaxSubmissions == 2

---------------------------------------------------------------------------
(* JavaScript values.  A value is a record [t, n, d, s]: t is the type,    *)
(* n + d/10 the numeric value of a number (d a decimal digit), s the text  *)
(* of a string.                                                            *)

Undefined == [t |-> "undefined", n |-> 0, d |-> 0, s |-> ""]
Null      == [t |-> "null",      n |-> 0, d |-> 0, s |-> ""]
NaN       == [t |-> "NaN",       n |-> 0, d |-> 0, s |-> ""]
Infinity  == [t |-> "Infinity",  n |-> 0, d |-> 0, s |-> ""]
Num(k)    == [t |-> "number",    n |-> k, d |-> 0, s |-> ""]
Frac(k, dd) == [t |-> "number",  n |-> k, d |-> dd, s |-> ""]
Str(x)    == [t |-> "string",    n |-> 0, d |-> 0, s |-> x]
JsTrue    == [t |-> "boolean",   n |-> 1, d |-> 0, s |-> ""]
JsFalse   == [t |-> "boolean",   n |-> 0, d |-> 0, s |-> ""]

\* JS truthiness of a value (the left operand of ||)
Truthy(v) ==
    CASE v.t = "undefined" -> FALSE
      [] v.t = "null"      -> FALSE
      [] v.t = "NaN"       -> FALSE
      [] v.t = "Infinity"  -> TRUE
      [] v.t = "number"    -> ~(v.n = 0 /\ v.d = 0)
      [] v.t = "string"    -> v.s # ""
      [] v.t = "boolean"   -> v.n = 1

\* StringToNumber of the strings the model uses
StringToNumber(x) ==
    CASE x = ""    -> Num(0)
      [] x = "1"   -> Num(1)
      [] x = "2"   -> Num(2)
      [] x = "3.7" -> Frac(3, 7)
      [] OTHER     -> NaN

\* Number(v)
ToNumber(v) ==
    CASE v.t = "undefined" -> NaN
      [] v.t = "null"      -> Num(0)
      [] v.t = "NaN"       -> NaN
      [] v.t = "Infinity"  -> Infinity
      [] v.t = "number"    -> v
      [] v.t = "string"    -> StringToNumber(v.s)
      [] v.t = "boolean"   -> Num(v.n)

\* a || b
JsOr(a, b) == IF Truthy(a) THEN a ELSE b

\* a ?? b
JsNullish(a, b) == IF a.t \in {"undefined", "null"} THEN b ELSE a

\* a >= b and a > b on JS numbers (finite, Infinity or NaN): any comparison
\* with NaN is false
JsGe(a, b) ==
    \/ a.t = "Infinity" /\ b.t \in {"number", "Infinity"}
    \/ /\ a.t = "number" /\ b.t = "number"
       /\ (a.n > b.n \/ (a.n = b.n /\ a.d >= b.d))

JsGt(a, b) ==
    \/ a.t = "Infinity" /\ b.t = "number"
    \/ /\ a.t = "number" /\ b.t = "number"
       /\ (a.n > b.n \/ (a.n = b.n /\ a.d > b.d))

\* Number.isFinite(x) of a JS number
IsFinite(x) == x.t = "number"

\* Math.floor(x) of a finite JS number n + d/10: the integer n
MathFloor(x) == x.n

\* Math.max(a, b) of two integers
MathMax(a, b) == IF a >= b THEN a ELSE b

\* an object used as a map: a function on the set of its own keys
EmptyMap == [k \in {} |-> ""]

MapPut(m, key, val) ==
    [k \in DOMAIN m \cup {key} |-> IF k = key THEN val ELSE m[k]]

---------------------------------------------------------------------------
(* Variants of single definitions, each differing from the code in one     *)
(* place: the properties below hold of the code and fail of the variant.   *)

\* if (!quizId) return;  dropped
SkipRecord_never(data) == FALSE

\* attemptNumber > latestAttemptNumber: the first record of a tie wins
IsLatest_strict(attemptNumber, entry) == JsGt(attemptNumber, entry.latestAttemptNumber)

\* nextSummary starts from the summary already published
nextSummaryInit_keep(prev) == prev

\* the attempts used read off the latest attempt number instead of the count
UsedAttempts_latestNumber(quiz, submissionSummary) ==
    IF submissionSummary.present /\ quiz.id \in DOMAIN submissionSummary.map
    THEN submissionSummary.map[quiz.id].latestAttemptNumber.n
    ELSE 0

\* Math.ceil in place of Math.floor
getMaxAttempts_ceil(quiz) ==
    LET raw == ToNumber(JsNullish(IF quiz.kind = "object" THEN quiz.maxAttempts ELSE Undefined, Num(1)))
    IN  IF IsFinite(raw) /\ JsGt(raw, Num(0))
        THEN (IF raw.d > 0 THEN raw.n + 1 ELSE raw.n)
        ELSE 1

---------------------------------------------------------------------------
(* useStudentSubmissions: the fold of one snapshot (part_004:408-437)      *)

\* const nextSummary = {}
nextSummaryInit(prev) == EmptyMap

\* if (!quizId) return;   a missing quizId is modelled as the empty string
SkipRecord(data) == data.quizId = ""

\* the entry created on the first record of a quiz
NewEntry ==
    [count |-> 0, latestAttemptNumber |-> Num(0),
     latestAnswers |-> EmptyMap, latestEvaluations |-> EmptyMap]

\* Number(data.attemptNumber || 0)
AttemptNumberOf(data) == ToNumber(JsOr(data.attemptNumber, Num(0)))

\* attemptNumber >= nextSummary[quizId].latestAttemptNumber
IsLatest(attemptNumber, entry) == JsGe(attemptNumber, entry.latestAttemptNumber)

\* the three assignments of the if-body
TakeLatest(entry, attemptNumber, data) ==
    [entry EXCEPT !.latestAttemptNumber = attemptNumber,
                  !.latestAnswers = data.answers,
                  !.latestEvaluations = data.evaluations]

\* one iteration of snap.docs.forEach
SummaryStep(acc, data) ==
    IF SkipRecord(data) THEN acc
    ELSE LET quizId  == data.quizId
             attemptNumber == AttemptNumberOf(data)
             entry   == IF quizId \in DOMAIN acc THEN acc[quizId] ELSE NewEntry
             counted == [entry EXCEPT !.count = @ + 1]
         IN  MapPut(acc, quizId,
                    IF IsLatest(attemptNumber, counted)
                    THEN TakeLatest(counted, attemptNumber, data)
                    ELSE counted)

RECURSIVE SummaryFold(_, _)
SummaryFold(acc, docs) ==
    IF docs = <<>> THEN acc
    ELSE SummaryFold(SummaryStep(acc, Head(docs)), Tail(docs))

\* the snapshot callback: the value handed to setSummaryByQuiz
summarizeSnapshot(prev, docs) == SummaryFold(nextSummaryInit(prev), docs)

---------------------------------------------------------------------------
(* The attempt policy of StudentView (part_003:126-136)                    *)

\* a quiz argument: null, undefined, or an object.  An object that has no
\* id carries the empty string.
NullQuiz      == [kind |-> "null",      id |-> "", maxAttempts |-> Undefined]
UndefinedQuiz == [kind |-> "undefined", id |-> "", maxAttempts |-> Undefined]
QuizObject(id, maxAttempts) == [kind |-> "object", id |-> id, maxAttempts |-> maxAttempts]

\* quiz?.maxAttempts
MaxAttemptsField(quiz) == IF quiz.kind = "object" THEN quiz.maxAttempts ELSE Undefined

\* const raw = Number(quiz?.maxAttempts ?? 1);
\* return Number.isFinite(raw) && raw > 0 ? Math.floor(raw) : 1;
getMaxAttempts(quiz) ==
    LET raw == ToNumber(JsNullish(MaxAttemptsField(quiz), Num(1)))
    IN  IF IsFinite(raw) /\ JsGt(raw, Num(0)) THEN MathFloor(raw) ELSE 1

\* a submissionSummary argument: absent (null/undefined) or a map
AbsentSummary     == [present |-> FALSE, map |-> EmptyMap]
SummaryObject(m)  == [present |-> TRUE,  map |-> m]

\* submissionSummary?.[quiz.id]?.count || 0      (quiz is an object here)
UsedAttempts(quiz, submissionSummary) ==
    IF submissionSummary.present /\ quiz.id \in DOMAIN submissionSummary.map
    THEN submissionSummary.map[quiz.id].count
    ELSE 0

\* Math.max(0, maxAttempts - usedAttempts)
RemainingAttempts(maxAttempts, usedAttempts) == MathMax(0, maxAttempts - usedAttempts)

\* reading quiz.id of a null or undefined quiz throws a TypeError
ReadsIdOfNothing(quiz) == quiz.kind # "object"

Returned(maxAttempts, usedAttempts, remainingAttempts) ==
    [threw |-> FALSE, maxAttempts |-> maxAttempts, usedAttempts |-> usedAttempts,
     remainingAttempts |-> remainingAttempts]
Threw == [threw |-> TRUE, maxAttempts |-> 0, usedAttempts |-> 0, remainingAttempts |-> 0]

getAttemptInfo(quiz, submissionSummary) ==
    LET maxAttempts == getMaxAttempts(quiz)
    IN  IF ReadsIdOfNothing(quiz) THEN Threw
        ELSE LET usedAttempts == UsedAttempts(quiz, submissionSummary)
             IN  Returned(maxAttempts, usedAttempts,
                          RemainingAttempts(maxAttempts, usedAttempts))

---------------------------------------------------------------------------
(* The attempt-policy harness: getAttemptInfo called with a quiz argument  *)
(* and a summary drawn from bounded sets.                                  *)

RawMaxAttempts ==
    { Undefined, Null, NaN, Infinity, Num(0), Num(-3), Num(1), Num(2), Num(3),
      Frac(3, 7), Frac(0, 5), Str("abc"), Str("2"), Str("") }

InfoQuizArgs ==
    {NullQuiz, UndefinedQuiz}
      \cup { QuizObject(id, m) : id \in {"", "q1", "q2"}, m \in RawMaxAttempts }

EntryWithCount(c) == [NewEntry EXCEPT !.count = c]

InfoSummaryArgs ==
    {AbsentSummary}
      \cup { SummaryObject(m) : m \in UNION { [ks -> {EntryWithCount(c) : c \in 1..MaxUsedCount}]
                                                : ks \in SUBSET {"q1", "q2"} } }

NotCalled == [called |-> FALSE, value |-> Threw]

InfoInit ==
    /\ infoQuiz \in InfoQuizArgs
    /\ infoSummary \in InfoSummaryArgs
    /\ infoResult = NotCalled

CallGetAttemptInfo ==
    /\ ~infoResult.called
    /\ infoResult' = [called |-> TRUE, value |-> getAttemptInfo(infoQuiz, infoSummary)]
    /\ UNCHANGED <<infoQuiz, infoSummary>>
    /\ UNCHANGED notInfoVars

InfoIdle ==
    /\ infoQuiz = NullQuiz
    /\ infoSummary = AbsentSummary
    /\ infoResult = NotCalled

---------------------------------------------------------------------------
(* The ledger harness: snapshots of a submissions query delivered to the   *)
(* hook.  Successive snapshots differ by one document added (anywhere in   *)
(* the query order) or removed, or are the same snapshot delivered again.  *)

LedgerQuizIds == {"", "q1", "q2"}

AnswersA == [k \in {"x1"} |-> "a"]
AnswersB == [k \in {"x1"} |-> "b"]
EvalsA   == [k \in {"x1"} |-> [isCorrect |-> TRUE,  feedback |-> "ai"]]
EvalsB   == [k \in {"x1"} |-> [isCorrect |-> FALSE, feedback |-> "ai"]]

\* two distinguishable bodies; the first is also the later one in time
LedgerBodies ==
    { [answers |-> AnswersA, evaluations |-> EvalsA, attemptedAt |-> 2],
      [answers |-> AnswersB, evaluations |-> EvalsB, attemptedAt |-> 1] }

LedgerDoc(q, an, body) ==
    [quizId |-> q, attemptNumber |-> an, answers |-> body.answers,
     evaluations |-> body.evaluations, attemptedAt |-> body.attemptedAt]

\* attemptNumber as the application stores it (an integer >= 1), or absent
StoredAttemptNumbers == {Undefined, Num(1), Num(2)}
\* attemptNumber of an arbitrary document
RawAttemptNumbers == {Undefined, Num(0), Num(-1), Num(2), Str("abc")}

LedgerDocs == { LedgerDoc(q, an, b) :
                  q \in LedgerQuizIds, an \in StoredAttemptNumbers, b \in LedgerBodies }
LedgerDocsRaw == { LedgerDoc(q, an, b) :
                  q \in {"q1", "q2"}, an \in RawAttemptNumbers, b \in LedgerBodies }

InsertAt(s, i, e) == SubSeq(s, 1, i - 1) \o <<e>> \o SubSeq(s, i, Len(s))
RemoveAt(s, i)    == SubSeq(s, 1, i - 1) \o SubSeq(s, i + 1, Len(s))

LedgerInit ==
    /\ ledgerSnap = <<>>
    /\ summaryByQuiz = EmptyMap
    /\ ledgerPrevKeys = {}

\* onSnapshot fires with `docs`
onSnapshot(docs) ==
    /\ summaryByQuiz' = summarizeSnapshot(summaryByQuiz, docs)
    /\ ledgerSnap' = docs
    /\ ledgerPrevKeys' = DOMAIN summaryByQuiz

SnapshotAfterAdd(domain) ==
    /\ Len(ledgerSnap) < MaxSnapshotLen
    /\ \E e \in domain, i \in 1..(Len(ledgerSnap) + 1) :
          onSnapshot(InsertAt(ledgerSnap, i, e))

SnapshotAfterDelete ==
    /\ \E i \in 1..Len(ledgerSnap) : onSnapshot(RemoveAt(ledgerSnap, i))
    /\ UNCHANGED notLedgerVars

SnapshotAgain ==
    /\ onSnapshot(ledgerSnap)
    /\ UNCHANGED notLedgerVars

LedgerAdd ==
    /\ SnapshotAfterAdd(LedgerDocs)
    /\ UNCHANGED notLedgerVars

LedgerAddRaw ==
    /\ SnapshotAfterAdd(LedgerDocsRaw)
    /\ UNCHANGED notLedgerVars

LedgerIdle ==
    /\ ledgerSnap = <<>>
    /\ summaryByQuiz = EmptyMap
    /\ ledgerPrevKeys = {}

---------------------------------------------------------------------------
(* The attempt history: useStudentAttempts (part_004) sorts each snapshot, *)
(* and the attemptsByQuiz memo of StudentView (part_003) groups the sorted *)
(* list by quiz and sorts each group again.                                *)

\* longest snapshot the history harness delivers
MaxHistoryLen == 3

\* attemptedAt as submitQuiz writes it (new Date().toISOString()); the three
\* strings stand for three instants in this order
IsoT1 == Str("2024-01-01T00:00:00.000Z")
IsoT2 == Str("2024-01-02T00:00:00.000Z")
IsoT3 == Str("2024-01-03T00:00:00.000Z")

\* new Date(v).getTime() of the values the model uses, counted in days;
\* new Date(0) is the epoch, before all of them
DateGetTime(v) ==
    CASE v = IsoT1 -> 19723
      [] v = IsoT2 -> 19724
      [] v = IsoT3 -> 19725
      [] v = Num(0) -> 0

HistoryDoc(q, an, at) == [quizId |-> q, attemptNumber |-> an, attemptedAt |-> at]

\* the documents a snapshot may hold: q1 with every attemptNumber and
\* attemptedAt, q2, and one document without quizId
HistoryDocs ==
    { HistoryDoc("q1", an, at) : an \in {Undefined, Num(1), Num(2)},
                                 at \in {Undefined, IsoT1, IsoT2} }
      \cup { HistoryDoc("q2", Num(1), IsoT2), HistoryDoc("q2", Num(2), IsoT1),
             HistoryDoc("", Num(1), IsoT3) }

\* the comparator with the time first (variant)
compareAttempts_timeFirst(a, b) ==
    LET timeDelta == DateGetTime(JsOr(b.attemptedAt, Num(0)))
                       - DateGetTime(JsOr(a.attemptedAt, Num(0)))
    IN  IF timeDelta # 0 THEN timeDelta
        ELSE AttemptNumberOf(b).n - AttemptNumberOf(a).n

\* the comparator of part_003:117-121 and part_004:460-465
compareAttempts(a, b) ==
    LET attemptDelta == AttemptNumberOf(b).n - AttemptNumberOf(a).n
    IN  IF attemptDelta # 0 THEN attemptDelta
        ELSE DateGetTime(JsOr(b.attemptedAt, Num(0)))
               - DateGetTime(JsOr(a.attemptedAt, Num(0)))

\* Array.prototype.sort(cmp) with a consistent comparator: the stable sort.
\* Element i goes after the elements that compare before it and after the
\* equal ones that stood before it.
\* cmp is the comparator as a table: cmp[<<a, b>>] for elements a, b of s.
ArraySort(s, cmp) ==
    LET before(j, i) == cmp[<<s[j], s[i]>>] < 0 \/ (cmp[<<s[j], s[i]>>] = 0 /\ j < i)
        rank(i) == 1 + Cardinality({ j \in 1..Len(s) : j # i /\ before(j, i) })
    IN  [k \in 1..Len(s) |-> s[CHOOSE i \in 1..Len(s) : rank(i) = k]]

\* the elements of an array
Elements(s) == { s[i] : i \in 1..Len(s) }

\* (a, b) => ... of part_003:117-121 over the elements of s
AttemptComparator(s) ==
    [p \in Elements(s) \X Elements(s) |-> compareAttempts(p[1], p[2])]

\* the onSnapshot callback of useStudentAttempts: map, sort
sortAttempts(docs) == ArraySort(docs, AttemptComparator(docs))

\* grouped[attempt.quizId].push(attempt) for the attempts with a quizId
GroupOf(history, q) == SelectSeq(history, LAMBDA attempt : attempt.quizId = q)

\* the attemptsByQuiz memo: group, then sort each group
attemptsByQuiz(history) ==
    LET keys == { history[i].quizId : i \in 1..Len(history) } \ {""}
    IN  [q \in keys |-> ArraySort(GroupOf(history, q), AttemptComparator(history))]

HistoryInit ==
    /\ attemptDocs = <<>>
    /\ submissionHistory = <<>>

\* onSnapshot of useStudentAttempts fires with `docs`
onAttemptsSnapshot(docs) ==
    /\ attemptDocs' = docs
    /\ submissionHistory' = sortAttempts(docs)

\* a submission joins the query result, anywhere in its order
HistoryAdd ==
    /\ Len(attemptDocs) < MaxHistoryLen
    /\ \E e \in HistoryDocs, i \in 1..(Len(attemptDocs) + 1) :
          onAttemptsSnapshot(InsertAt(attemptDocs, i, e))
    /\ UNCHANGED notHistoryVars

\* a submission is deleted
HistoryDelete ==
    /\ \E i \in 1..Len(attemptDocs) : onAttemptsSnapshot(RemoveAt(attemptDocs, i))
    /\ UNCHANGED notHistoryVars

HistoryIdle ==
    /\ attemptDocs = <<>>
    /\ submissionHistory = <<>>

---------------------------------------------------------------------------
(* The teacher's feed: useTeacherSubmissions (part_004) listens to the     *)
(* teacher's quizzes and, per quiz, to its submissions, and publishes the  *)
(* merged rows sorted by time.                                             *)

\* most submissions in the store of the feed harness
MaxFeedDocs == 2

FeedQuizIds == {"q1", "q2"}

\* submissions of two quizzes whose attempt numbers run against their
\* times, and one without attemptedAt
FeedDocs ==
    { HistoryDoc("q1", Num(2), IsoT1), HistoryDoc("q1", Num(1), IsoT2),
      HistoryDoc("q2", Num(1), IsoT3), HistoryDoc("q1", Num(1), Undefined) }

\* the comparator with the attempt number first (variant)
compareByTime_attemptFirst(a, b) ==
    LET attemptDelta == AttemptNumberOf(b).n - AttemptNumberOf(a).n
    IN  IF attemptDelta # 0 THEN attemptDelta
        ELSE DateGetTime(JsOr(b.attemptedAt, Num(0)))
               - DateGetTime(JsOr(a.attemptedAt, Num(0)))

\* the comparator of part_004:489-493: bTime - aTime
compareByTime(a, b) ==
    DateGetTime(JsOr(b.attemptedAt, Num(0))) - DateGetTime(JsOr(a.attemptedAt, Num(0)))

TimeComparator(s) ==
    [p \in Elements(s) \X Elements(s) |-> compareByTime(p[1], p[2])]

\* new Map(): a list of [key, rows] in insertion order
EmptyJsMap == <<>>

\* map.set(key, rows): an existing key keeps its place
JsMapSet(mp, key, rows) ==
    IF \E i \in 1..Len(mp) : mp[i].key = key
    THEN [i \in 1..Len(mp) |-> IF mp[i].key = key THEN [key |-> key, rows |-> rows]
                                                  ELSE mp[i]]
    ELSE Append(mp, [key |-> key, rows |-> rows])

\* Array.from(map.values()).flat()
RECURSIVE JsMapValuesFlat(_)
JsMapValuesFlat(mp) ==
    IF mp = <<>> THEN <<>> ELSE Head(mp).rows \o JsMapValuesFlat(Tail(mp))

\* what emitMergedSubmissions hands to setSubmissions
mergedSubmissions(mp) ==
    LET flat == JsMapValuesFlat(mp)
    IN  ArraySort(flat, TimeComparator(flat))

\* the result of query(submissions, where('quizId', '==', quizId))
RowsOfQuiz(docs, quizId) == SelectSeq(docs, LAMBDA d : d.quizId = quizId)

\* TeacherDashboard's filteredSubmissions with selectedClassId 'all'
filteredSubmissions(rows) == ArraySort(rows, TimeComparator(rows))

FeedInit ==
    /\ feedOwned \in SUBSET FeedQuizIds
    /\ feedDocs = <<>>
    /\ feedListeners = {}
    /\ submissionsByQuiz = EmptyJsMap
    /\ teacherSubmissions = <<>>

\* a student's submitQuiz stores a submission
FeedStoreAdd ==
    /\ Len(feedDocs) < MaxFeedDocs
    /\ \E e \in FeedDocs, i \in 1..(Len(feedDocs) + 1) :
          feedDocs' = InsertAt(feedDocs, i, e)
    /\ UNCHANGED <<feedOwned, feedListeners, submissionsByQuiz, teacherSubmissions>>
    /\ UNCHANGED notFeedVars

\* a submission is deleted
FeedStoreDelete ==
    /\ \E i \in 1..Len(feedDocs) : feedDocs' = RemoveAt(feedDocs, i)
    /\ UNCHANGED <<feedOwned, feedListeners, submissionsByQuiz, teacherSubmissions>>
    /\ UNCHANGED notFeedVars

\* the teacher creates or deletes a quiz
FeedQuizChange ==
    /\ \E q \in FeedQuizIds :
          feedOwned' = IF q \in feedOwned THEN feedOwned \ {q} ELSE feedOwned \cup {q}
    /\ UNCHANGED <<feedDocs, feedListeners, submissionsByQuiz, teacherSubmissions>>
    /\ UNCHANGED notFeedVars

\* onSnapshot(quizzesQuery): the listeners are replaced and the Map cleared;
\* only an empty quiz list publishes at once
FeedQuizzesSnapshot ==
    /\ feedListeners' = feedOwned
    /\ submissionsByQuiz' = EmptyJsMap
    /\ teacherSubmissions' = IF feedOwned = {} THEN <<>> ELSE teacherSubmissions
    /\ UNCHANGED <<feedOwned, feedDocs>>
    /\ UNCHANGED notFeedVars

\* onSnapshot(perQuizSubmissionsQuery) of a live listener
FeedSubmissionsSnapshot ==
    /\ \E q \in feedListeners :
          /\ submissionsByQuiz' = JsMapSet(submissionsByQuiz, q, RowsOfQuiz(feedDocs, q))
          /\ teacherSubmissions' = mergedSubmissions(submissionsByQuiz')
    /\ UNCHANGED <<feedOwned, feedDocs, feedListeners>>
    /\ UNCHANGED notFeedVars

\* the error callback of a live listener: its rows become []
FeedSubmissionsError ==
    /\ \E q \in feedListeners :
          /\ submissionsByQuiz' = JsMapSet(submissionsByQuiz, q, <<>>)
          /\ teacherSubmissions' = mergedSubmissions(submissionsByQuiz')
    /\ UNCHANGED <<feedOwned, feedDocs, feedListeners>>
    /\ UNCHANGED notFeedVars

FeedIdle ==
    /\ feedOwned = {}
    /\ feedDocs = <<>>
    /\ feedListeners = {}
    /\ submissionsByQuiz = EmptyJsMap
    /\ teacherSubmissions = <<>>

---------------------------------------------------------------------------
(* The application: one student's StudentView against the document store.  *)
(* The student's summary is the state of useStudentSubmissions             *)
(* (summaryByQuiz, fed by onSnapshot above).                               *)

QuizIds  == {"q1", "q2"}
\* the quizzes the teacher edits after creating them
EditedQuizIds == {"q1"}
ClassIds == {"c1", "c2"}

\* a question is modelled by its id; q1 has two questions, q2 one
QuestionsOf(q) == IF q = "q1" THEN <<"x1", "x2">> ELSE <<"y1">>
ClassOf(q)     == IF q = "q1" THEN "c1" ELSE "c2"

\* a quiz document as buildQuizPayload writes it, read back with its id
QuizDoc(q, maxAttempts, prefill, allowShuffle, isLocked) ==
    [kind |-> "object", id |-> q, maxAttempts |-> maxAttempts,
     prefillFromLastAttempt |-> prefill, allowShuffle |-> allowShuffle,
     isLocked |-> isLocked, classId |-> ClassOf(q), questions |-> QuestionsOf(q)]

\* activeQuiz = null
NoActiveQuiz ==
    [kind |-> "null", id |-> "", maxAttempts |-> Undefined,
     prefillFromLastAttempt |-> Undefined, allowShuffle |-> FALSE,
     isLocked |-> FALSE, classId |-> "", questions |-> <<>>]

\* prefillFromLastAttempt of a stored quiz: true, false, or no such field
PrefillValues == {JsTrue, JsFalse, Undefined}

\* the only answer text the student types
AnswerText == "a"

\* gradingResult = null, or an evaluations object
NoGradingResult     == [present |-> FALSE, map |-> EmptyMap]
GradingResultOf(ev) == [present |-> TRUE,  map |-> ev]

\* what gradeSubmission resolves to: null, or the JSON payload of the
\* grading function, with or without a truthy `evaluations`
GradingNull            == [isNull |-> TRUE,  hasEvaluations |-> FALSE, evaluations |-> EmptyMap]
GradingNoEvaluations   == [isNull |-> FALSE, hasEvaluations |-> FALSE, evaluations |-> EmptyMap]
GradingPayload(ev)     == [isNull |-> FALSE, hasEvaluations |-> TRUE,  evaluations |-> ev]

QuestionIds(quiz) == { quiz.questions[i] : i \in 1..Len(quiz.questions) }

\* evaluations the grading service sends for a quiz: one per question
ServiceEvaluations(quiz) ==
    { [k \in QuestionIds(quiz) |-> [isCorrect |-> TRUE, feedback |-> "ai"]] }

GradingOutcomes(quiz) ==
    {GradingNull, GradingNoEvaluations}
      \cup { GradingPayload(ev) : ev \in ServiceEvaluations(quiz) }

FallbackFeedback == "AI grading is unavailable. Your answer was saved and needs teacher review."

\* the orders [...questions].sort(() => Math.random() - 0.5) can produce
ShuffledOrders(s) ==
    { p \in [1..Len(s) -> QuestionIds([questions |-> s])] :
        \A i, j \in 1..Len(s) : i # j => p[i] # p[j] }

\* the identity of the object held in studentAnswers.  aliasOf is the quiz
\* whose summary entry's latestAnswers is that very object ('' when the
\* object is the session's own); seededFrom (history) is the quiz whose
\* latestAnswers object startQuiz handed to setStudentAnswers
NoRef == [seededFrom |-> "", aliasOf |-> ""]

\* no submitQuiz call has run
NoRun ==
    [stage |-> "idle", quiz |-> NoActiveQuiz, answers |-> EmptyMap,
     usedAttempts |-> 0, maxAttempts |-> 0, gradingData |-> GradingNull,
     evaluations |-> EmptyMap, gradeStatus |-> "", saved |-> "none"]

\* ---- variants of the definitions below ----

\* the sequence shuffled whatever allowShuffle says
PresentedOrders_alwaysShuffled(quiz) ==
    { p \in [1..Len(quiz.questions) -> { quiz.questions[i] : i \in 1..Len(quiz.questions) }] :
        \A i, j \in 1..Len(quiz.questions) : i # j => p[i] # p[j] }

\* the document numbered with the count itself: attemptNumber = usedAttempts
SubmissionDoc_numberedFromZero(run) ==
    [quizId |-> run.quiz.id, attemptNumber |-> Num(run.usedAttempts),
     answers |-> run.answers, evaluations |-> run.evaluations,
     gradeStatus |-> run.gradeStatus, maxAttemptsAtSubmission |-> run.maxAttempts]

\* the updater writing into the object it was given: prev[questionId] = value
updateAnswers_inPlace(prev, ref, summary, questionId, value) ==
    [answers |-> prev @@ (questionId :> value),
     ref     |-> ref,
     summary |-> IF ref.aliasOf \in DOMAIN summary
                 THEN [summary EXCEPT ![ref.aliasOf].latestAnswers =
                                          (questionId :> value) @@ prev]
                 ELSE summary]

\* the fallback covers the first question only
buildFallbackEvaluations_firstOnly(quiz) ==
    [k \in {quiz.questions[i] : i \in 1..(IF Len(quiz.questions) > 0 THEN 1 ELSE 0)}
        |-> [isCorrect |-> FALSE, feedback |-> FallbackFeedback]]

\* the list without `.filter((quiz) => !quiz.isLocked)`
quizzes_withLocked(all, classId) ==
    IF classId = "" THEN {}
    ELSE { q \in DOMAIN all : all[q].classId = classId }

\* the answers seeded whatever prefillFromLastAttempt says
InitialAnswers_alwaysPrefill(quiz, summary) ==
    IF quiz.id \in DOMAIN summary THEN summary[quiz.id].latestAnswers ELSE EmptyMap

\* ---- StudentView (part_003) ----

\* allClassQuizzes.filter((quiz) => quiz.classId === selectedClassId), or []
Scoped(all, classId) ==
    IF classId = "" THEN {}
    ELSE { q \in DOMAIN all : all[q].classId = classId }

\* the quizzes memo: scoped, then .filter((quiz) => !quiz.isLocked)
quizzes(all, classId) == { q \in Scoped(all, classId) : ~all[q].isLocked }

\* one fallback evaluation per question that has an id
buildFallbackEvaluations(quiz) ==
    [k \in { id \in QuestionIds(quiz) : id # "" }
        |-> [isCorrect |-> FALSE, feedback |-> FallbackFeedback]]

\* submissionSummary?.[quiz.id]?.latestAnswers || {}
LatestAnswers(quiz, summary) ==
    IF quiz.id \in DOMAIN summary THEN summary[quiz.id].latestAnswers ELSE EmptyMap

\* quiz.prefillFromLastAttempt ? latestAnswers : {}
InitialAnswers(quiz, summary) ==
    IF Truthy(quiz.prefillFromLastAttempt) THEN LatestAnswers(quiz, summary) ELSE EmptyMap

\* the object passed to setStudentAnswers: the summary entry's latestAnswers
\* itself when there is one and prefill is on, a new {} otherwise
InitialAnswersRef(quiz, summary) ==
    IF Truthy(quiz.prefillFromLastAttempt) /\ quiz.id \in DOMAIN summary
    THEN [seededFrom |-> quiz.id, aliasOf |-> quiz.id]
    ELSE NoRef

\* quiz.allowShuffle ? shuffled copy : quiz.questions
PresentedOrders(quiz) ==
    IF quiz.allowShuffle THEN ShuffledOrders(quiz.questions) ELSE {quiz.questions}

\* remainingAttempts <= 0 on the summary the component holds
AttemptsExhausted(quiz) ==
    getAttemptInfo(quiz, SummaryObject(summaryByQuiz)).remainingAttempts <= 0

startQuiz(quiz) ==
    IF AttemptsExhausted(quiz)
    THEN UNCHANGED sessionVars                       \* alert, return
    ELSE /\ activeQuiz' = quiz
         /\ studentAnswers' = InitialAnswers(quiz, summaryByQuiz)
         /\ answersRef' = InitialAnswersRef(quiz, summaryByQuiz)
         /\ gradingResult' = NoGradingResult
         /\ viewingResult' = FALSE
         /\ shuffledQuestions' \in PresentedOrders(quiz)
         /\ view' = "quiz"
         /\ UNCHANGED isSubmitting

\* setStudentAnswers((prev) => ({ ...prev, [questionId]: value })): the
\* updater builds a new object and writes to nothing it was given
updateAnswers(prev, ref, summary, questionId, value) ==
    [answers |-> MapPut(prev, questionId, value),
     ref     |-> [ref EXCEPT !.aliasOf = ""],
     summary |-> summary]

\* answered = keys of studentAnswers whose trimmed text is not empty
AnsweredCount(answers) == Cardinality({ k \in DOMAIN answers : answers[k] # "" })

\* the part of submitQuiz before `await gradeSubmission(...)`
submitQuiz ==
    IF activeQuiz.kind # "object" \/ isSubmitting
    THEN UNCHANGED <<isSubmitting, viewingResult, submitRun>>
    ELSE LET info == getAttemptInfo(activeQuiz, SummaryObject(summaryByQuiz))
         IN  IF info.remainingAttempts <= 0
             THEN UNCHANGED <<isSubmitting, viewingResult, submitRun>>   \* alert, return
             ELSE \E confirmed \in BOOLEAN :
                    IF AnsweredCount(studentAnswers) < Len(activeQuiz.questions)
                         /\ ~confirmed
                    THEN UNCHANGED <<isSubmitting, viewingResult, submitRun>>
                    ELSE /\ isSubmitting' = TRUE
                         /\ viewingResult' = FALSE
                         /\ submitRun' =
                              [stage |-> "grading", quiz |-> activeQuiz,
                               answers |-> studentAnswers,
                               usedAttempts |-> info.usedAttempts,
                               maxAttempts |-> info.maxAttempts,
                               gradingData |-> GradingNull, evaluations |-> EmptyMap,
                               gradeStatus |-> "", saved |-> "none"]

\* gradingData?.evaluations || buildFallbackEvaluations(activeQuiz)
EvaluationsFor(gradingData, quiz) ==
    IF gradingData.hasEvaluations THEN gradingData.evaluations
    ELSE buildFallbackEvaluations(quiz)

\* gradingData?.evaluations ? 'graded' : 'needs_teacher_review'
GradeStatusFor(gradingData) ==
    IF gradingData.hasEvaluations THEN "graded" ELSE "needs_teacher_review"

\* the document handed to addDoc (the fields the model follows)
SubmissionDoc(run) ==
    [quizId |-> run.quiz.id, attemptNumber |-> Num(run.usedAttempts + 1),
     answers |-> run.answers, evaluations |-> run.evaluations,
     gradeStatus |-> run.gradeStatus, maxAttemptsAtSubmission |-> run.maxAttempts]

\* ---- actions ----

\* useStudentClasses delivers the student's classes (c1, c2); the effect of
\* lines 75-84 selects the first
ClassesSnapshot ==
    /\ selectedClassId = ""
    /\ selectedClassId' = "c1"
    /\ UNCHANGED <<storeVars, allClassQuizzes, sessionVars, submitRun, lastTry>>
    /\ UNCHANGED <<ledgerVars, sideVars>>

\* a class button of the list
SelectClass ==
    /\ view = "list"
    /\ selectedClassId # ""
    /\ \E c \in ClassIds : selectedClassId' = c
    /\ UNCHANGED <<storeVars, allClassQuizzes, sessionVars, submitRun, lastTry>>
    /\ UNCHANGED <<ledgerVars, sideVars>>

\* quizzesByClass.set(classId, rows); emit(): the rows of one class replaced
MergeClassQuizzes(all, classId, store) ==
    LET kept  == { q \in DOMAIN all : all[q].classId # classId }
        fresh == { q \in DOMAIN store : store[q].classId = classId }
    IN  [q \in kept \cup fresh |-> IF q \in fresh THEN store[q] ELSE all[q]]

\* useQuizzesByClassIds: the listener of one of the student's classes
\* delivers that class's quizzes; the effect of lines 100-107 follows
QuizSnapshot ==
    /\ selectedClassId # ""
    /\ \E c \in ClassIds :
          allClassQuizzes' = MergeClassQuizzes(allClassQuizzes, c, quizStore)
    /\ IF activeQuiz.kind = "object" /\ activeQuiz.id \notin DOMAIN allClassQuizzes'
       THEN activeQuiz' = NoActiveQuiz /\ view' = "list"
       ELSE UNCHANGED <<activeQuiz, view>>
    /\ UNCHANGED <<storeVars, selectedClassId, studentAnswers, answersRef, gradingResult,
                   isSubmitting, viewingResult, shuffledQuestions, submitRun, lastTry>>
    /\ UNCHANGED <<ledgerVars, sideVars>>

\* useStudentSubmissions receives the student's submissions
SubmissionsSnapshot ==
    /\ onSnapshot(submissions)
    /\ answersRef' = [answersRef EXCEPT !.aliasOf = ""]   \* the summary is a new object
    /\ UNCHANGED <<storeVars, clientVars, view, activeQuiz, studentAnswers, gradingResult,
                   isSubmitting, viewingResult, shuffledQuestions, submitRun, lastTry>>
    /\ UNCHANGED sideVars

\* the teacher saves a quiz with isLocked set or cleared
TeacherSaveQuiz ==
    /\ \E q \in EditedQuizIds, locked \in BOOLEAN :
          quizStore' = [quizStore EXCEPT ![q].isLocked = locked]
    /\ UNCHANGED <<submissions, clientVars, sessionVars, submitRun, lastTry>>
    /\ UNCHANGED <<ledgerVars, sideVars>>

\* the student goes for quiz q of the selected class: the list offers an
\* enabled Start button only for a quiz of `quizzes` with attempts left
TryStartQuiz ==
    /\ view = "list"
    /\ \E q \in Scoped(allClassQuizzes, selectedClassId) :
          /\ lastTry' = q
          /\ IF q \in quizzes(allClassQuizzes, selectedClassId)
                  /\ ~AttemptsExhausted(allClassQuizzes[q])
             THEN startQuiz(allClassQuizzes[q])
             ELSE UNCHANGED sessionVars
    /\ UNCHANGED <<storeVars, clientVars, submitRun>>
    /\ UNCHANGED <<ledgerVars, sideVars>>

\* the answer editor of a presented question; disabled while submitting or
\* viewing a result
handleAnswerChange ==
    /\ view \in {"quiz", "results"}
    /\ activeQuiz.kind = "object"
    /\ ~isSubmitting /\ ~viewingResult
    /\ \E i \in 1..Len(shuffledQuestions) :
          LET r == updateAnswers(studentAnswers, answersRef, summaryByQuiz,
                                 shuffledQuestions[i], AnswerText)
          IN  /\ studentAnswers' = r.answers
              /\ answersRef' = r.ref
              /\ summaryByQuiz' = r.summary
    /\ UNCHANGED <<storeVars, clientVars, view, activeQuiz, gradingResult, isSubmitting,
                   viewingResult, shuffledQuestions, submitRun, lastTry>>
    /\ UNCHANGED <<ledgerSnap, ledgerPrevKeys, sideVars>>

\* the Submit button: shown while no result is viewed, disabled while
\* submitting
SubmitQuiz ==
    /\ view \in {"quiz", "results"}
    /\ activeQuiz.kind = "object"
    /\ ~viewingResult /\ ~isSubmitting
    /\ Len(submissions) < MaxSubmissions
    /\ submitQuiz
    /\ UNCHANGED <<storeVars, clientVars, view, activeQuiz, studentAnswers, answersRef, gradingResult,
                   shuffledQuestions, lastTry>>
    /\ UNCHANGED <<ledgerVars, sideVars>>

\* gradeSubmission resolves; submitQuiz runs on to `await addDoc(...)`
GradeResolved ==
    /\ submitRun.stage = "grading"
    /\ \E gradingData \in GradingOutcomes(submitRun.quiz) :
          submitRun' = [submitRun EXCEPT
                          !.stage = "saving",
                          !.gradingData = gradingData,
                          !.evaluations = EvaluationsFor(gradingData, submitRun.quiz),
                          !.gradeStatus = GradeStatusFor(gradingData)]
    /\ UNCHANGED <<storeVars, clientVars, sessionVars, lastTry>>
    /\ UNCHANGED <<ledgerVars, sideVars>>

\* addDoc resolves: the document is in the collection, anywhere in the
\* query order; submitQuiz shows the result
AddDocResolved ==
    /\ submitRun.stage = "saving"
    /\ \E i \in 1..(Len(submissions) + 1) :
          submissions' = InsertAt(submissions, i, SubmissionDoc(submitRun))
    /\ gradingResult' = GradingResultOf(submitRun.evaluations)
    /\ viewingResult' = TRUE
    /\ view' = "results"
    /\ isSubmitting' = FALSE
    /\ submitRun' = [submitRun EXCEPT !.stage = "done", !.saved = "written"]
    /\ UNCHANGED <<quizStore, clientVars, activeQuiz, studentAnswers, answersRef, shuffledQuestions,
                   lastTry>>
    /\ UNCHANGED <<ledgerVars, sideVars>>

\* the catch without its return: the call runs on to show the result
\* (variant)
AddDocRejected_withoutReturn ==
    /\ submitRun.stage = "saving"
    /\ gradingResult' = GradingResultOf(submitRun.evaluations)
    /\ viewingResult' = TRUE
    /\ view' = "results"
    /\ isSubmitting' = FALSE
    /\ submitRun' = [submitRun EXCEPT !.stage = "done", !.saved = "rejected"]
    /\ UNCHANGED <<storeVars, clientVars, activeQuiz, studentAnswers, answersRef, shuffledQuestions,
                   lastTry>>
    /\ UNCHANGED <<ledgerVars, sideVars>>

\* addDoc rejects: alert, setIsSubmitting(false), return
AddDocRejected ==
    /\ submitRun.stage = "saving"
    /\ isSubmitting' = FALSE
    /\ submitRun' = [submitRun EXCEPT !.stage = "done", !.saved = "rejected"]
    /\ UNCHANGED <<storeVars, clientVars, view, activeQuiz, studentAnswers, answersRef, gradingResult,
                   viewingResult, shuffledQuestions, lastTry>>
    /\ UNCHANGED <<ledgerVars, sideVars>>

\* Back to Quizzes, shown while a result is viewed
BackToQuizzes ==
    /\ view \in {"quiz", "results"}
    /\ activeQuiz.kind = "object"
    /\ viewingResult
    /\ view' = "list"
    /\ UNCHANGED <<storeVars, clientVars, activeQuiz, studentAnswers, answersRef, gradingResult,
                   isSubmitting, viewingResult, shuffledQuestions, submitRun, lastTry>>
    /\ UNCHANGED <<ledgerVars, sideVars>>

\* ---- StudentView.jsx:224-503, where it differs ----

\* const quizzes = allQuizzes.filter(q => !q.isLocked)
quizzesJsx(all) == { q \in DOMAIN all : ~all[q].isLocked }

\* useQuizzes delivers the quizzes collection
QuizSnapshotJsx ==
    /\ allClassQuizzes' = quizStore
    /\ UNCHANGED <<storeVars, selectedClassId, sessionVars, submitRun, lastTry>>
    /\ UNCHANGED <<ledgerVars, sideVars>>

TryStartQuizJsx ==
    /\ view = "list"
    /\ \E q \in DOMAIN allClassQuizzes :
          /\ lastTry' = q
          /\ IF q \in quizzesJsx(allClassQuizzes)
                  /\ ~AttemptsExhausted(allClassQuizzes[q])
             THEN startQuiz(allClassQuizzes[q])
             ELSE UNCHANGED sessionVars
    /\ UNCHANGED <<storeVars, clientVars, submitRun>>
    /\ UNCHANGED <<ledgerVars, sideVars>>

\* gradeSubmission resolves: only `gradingData && gradingData.evaluations`
\* leads on to addDoc; otherwise submitQuiz ends with setIsSubmitting(false)
GradeResolvedJsx ==
    /\ submitRun.stage = "grading"
    /\ \E gradingData \in GradingOutcomes(submitRun.quiz) :
          IF gradingData.hasEvaluations
          THEN /\ gradingResult' = GradingResultOf(gradingData.evaluations)
               /\ viewingResult' = TRUE
               /\ view' = "results"
               /\ submitRun' = [submitRun EXCEPT
                                  !.stage = "saving",
                                  !.gradingData = gradingData,
                                  !.evaluations = gradingData.evaluations]
               /\ UNCHANGED isSubmitting
          ELSE /\ isSubmitting' = FALSE
               /\ submitRun' = [submitRun EXCEPT
                                  !.stage = "done", !.gradingData = gradingData]
               /\ UNCHANGED <<gradingResult, viewingResult, view>>
    /\ UNCHANGED <<storeVars, clientVars, activeQuiz, studentAnswers, answersRef, shuffledQuestions,
                   lastTry>>
    /\ UNCHANGED <<ledgerVars, sideVars>>

AddDocResolvedJsx ==
    /\ submitRun.stage = "saving"
    /\ \E i \in 1..(Len(submissions) + 1) :
          submissions' = InsertAt(submissions, i, SubmissionDoc(submitRun))
    /\ isSubmitting' = FALSE
    /\ submitRun' = [submitRun EXCEPT !.stage = "done", !.saved = "written"]
    /\ UNCHANGED <<quizStore, clientVars, view, activeQuiz, studentAnswers, answersRef, gradingResult,
                   viewingResult, shuffledQuestions, lastTry>>
    /\ UNCHANGED <<ledgerVars, sideVars>>

\* addDoc rejects: console.error, setIsSubmitting(false)
AddDocRejectedJsx ==
    /\ submitRun.stage = "saving"
    /\ isSubmitting' = FALSE
    /\ submitRun' = [submitRun EXCEPT !.stage = "done", !.saved = "rejected"]
    /\ UNCHANGED <<storeVars, clientVars, view, activeQuiz, studentAnswers, answersRef, gradingResult,
                   viewingResult, shuffledQuestions, lastTry>>
    /\ UNCHANGED <<ledgerVars, sideVars>>

\* ---- initial state ----

\* the quizzes the teacher has saved: q1 allows two attempts, q2 one; q1's
\* prefillFromLastAttempt is any of its values, and q1 shuffles except where
\* the field is absent
QuizStores ==
    { [q \in QuizIds |->
         IF q = "q1" THEN QuizDoc(q, Num(2), prefill, prefill # Undefined, FALSE)
                     ELSE QuizDoc(q, Num(1), JsFalse, FALSE, FALSE)]
      : prefill \in PrefillValues }

SysInit ==
    /\ quizStore \in QuizStores
    /\ submissions = <<>>
    /\ selectedClassId = ""
    /\ allClassQuizzes = EmptyMap
    /\ view = "list"
    /\ activeQuiz = NoActiveQuiz
    /\ studentAnswers = EmptyMap
    /\ answersRef = NoRef
    /\ gradingResult = NoGradingResult
    /\ isSubmitting = FALSE
    /\ viewingResult = FALSE
    /\ shuffledQuestions = <<>>
    /\ submitRun = NoRun
    /\ lastTry = ""

\* the application at rest, for the harnesses
SysIdle ==
    /\ quizStore = EmptyMap
    /\ submissions = <<>>
    /\ selectedClassId = ""
    /\ allClassQuizzes = EmptyMap
    /\ view = "list"
    /\ activeQuiz = NoActiveQuiz
    /\ studentAnswers = EmptyMap
    /\ answersRef = NoRef
    /\ gradingResult = NoGradingResult
    /\ isSubmitting = FALSE
    /\ viewingResult = FALSE
    /\ shuffledQuestions = <<>>
    /\ submitRun = NoRun
    /\ lastTry = ""

---------------------------------------------------------------------------
(* Two sessions of the same student (two tabs or devices) and the teacher, *)
(* on one quiz and one submissions collection.  Each session runs          *)
(* useStudentSubmissions and StudentView's startQuiz and submitQuiz; the   *)
(* teacher runs deleteSubmissionAttempt.                                   *)

\* most submissions the collection holds
MaxRoomDocs == 3

Sessions == {"a", "b"}

\* the answers every attempt submits
RoomAnswers == [k \in {"x1", "x2"} |-> AnswerText]

\* a session: phase is 'list' | 'quiz' | 'grading' | 'saving' | 'results';
\* quiz is activeQuiz; usedAttempts and maxAttempts are the constants of
\* the submitQuiz call in flight
RoomSessionAtList ==
    [phase |-> "list", quiz |-> NoActiveQuiz, usedAttempts |-> 0, maxAttempts |-> 0]

\* ---- variants of the definitions below ----

\* the attempt information read from the collection instead of the summary
RoomAttemptInfo_fromStore(quiz, s) ==
    getAttemptInfo(quiz, SummaryObject(summarizeSnapshot(EmptyMap, roomStore)))

\* deletion that blanks the document and leaves it in place
deleteDoc_blank(docs, i) ==
    [docs EXCEPT ![i].answers = EmptyMap]

\* the effect of deleteDoc left out
deleteDoc_none(docs, i) == docs

\* ---- the code ----

\* getAttemptInfo(quiz) in session s: it reads that session's submissionSummary
RoomAttemptInfo(quiz, s) == getAttemptInfo(quiz, SummaryObject(roomSummary[s]))

\* deleteDoc(doc(db, 'submissions', submission.id))
deleteDoc(docs, i) == RemoveAt(docs, i)

\* the submitQuiz call of session s, as the record SubmissionDoc reads
RoomRun(s) ==
    [NoRun EXCEPT !.quiz = roomSession[s].quiz,
                  !.answers = RoomAnswers,
                  !.usedAttempts = roomSession[s].usedAttempts,
                  !.maxAttempts = roomSession[s].maxAttempts,
                  !.evaluations = buildFallbackEvaluations(roomSession[s].quiz),
                  !.gradeStatus = "needs_teacher_review"]

RoomInit ==
    /\ roomQuiz \in { QuizDoc("q1", Num(m), JsFalse, FALSE, FALSE) : m \in {1, 2} }
    /\ roomStore = <<>>
    /\ roomSnap = [s \in Sessions |-> <<>>]
    /\ roomSummary = [s \in Sessions |-> EmptyMap]
    /\ roomSession = [s \in Sessions |-> RoomSessionAtList]
    /\ roomGaveBack = ""

\* onSnapshot of useStudentSubmissions in session s
RoomSnapshotIn(s) ==
    /\ roomSnap' = [roomSnap EXCEPT ![s] = roomStore]
    /\ roomSummary' = [roomSummary EXCEPT ![s] = summarizeSnapshot(roomSummary[s], roomStore)]
    /\ roomGaveBack' = IF \E i \in 1..Len(roomSnap[s]) : roomStore = RemoveAt(roomSnap[s], i)
                       THEN s ELSE ""
    /\ UNCHANGED <<roomQuiz, roomStore, roomSession>>
    /\ UNCHANGED notRoomVars

RoomSnapshot == \E s \in Sessions : RoomSnapshotIn(s)

\* startQuiz(quiz) from the list or after Back to Quizzes
RoomStartIn(s) ==
    /\ roomSession[s].phase \in {"list", "results"}
    /\ roomSession' =
          IF RoomAttemptInfo(roomQuiz, s).remainingAttempts <= 0
          THEN [roomSession EXCEPT ![s].phase = "list"]       \* alert, return
          ELSE [roomSession EXCEPT ![s].phase = "quiz", ![s].quiz = roomQuiz]
    /\ UNCHANGED <<roomQuiz, roomStore, roomSnap, roomSummary>>
    /\ roomGaveBack' = ""
    /\ UNCHANGED notRoomVars

RoomStart == \E s \in Sessions : RoomStartIn(s)

\* submitQuiz up to `await gradeSubmission(...)`
RoomSubmitIn(s) ==
    /\ roomSession[s].phase = "quiz"
    /\ Len(roomStore)
         + Cardinality({ o \in Sessions : roomSession[o].phase \in {"grading", "saving"} })
           < MaxRoomDocs
    /\ LET info == RoomAttemptInfo(roomSession[s].quiz, s)
       IN  roomSession' =
             IF info.remainingAttempts <= 0
             THEN roomSession                                  \* alert, return
             ELSE [roomSession EXCEPT ![s].phase = "grading",
                                      ![s].usedAttempts = info.usedAttempts,
                                      ![s].maxAttempts = info.maxAttempts]
    /\ UNCHANGED <<roomQuiz, roomStore, roomSnap, roomSummary>>
    /\ roomGaveBack' = ""
    /\ UNCHANGED notRoomVars

RoomSubmit == \E s \in Sessions : RoomSubmitIn(s)

\* gradeSubmission resolves (here: without evaluations)
RoomGradeResolvedIn(s) ==
    /\ roomSession[s].phase = "grading"
    /\ roomSession' = [roomSession EXCEPT ![s].phase = "saving"]
    /\ UNCHANGED <<roomQuiz, roomStore, roomSnap, roomSummary>>
    /\ roomGaveBack' = ""
    /\ UNCHANGED notRoomVars

RoomGradeResolved == \E s \in Sessions : RoomGradeResolvedIn(s)

\* addDoc resolves: the collection has one more document
RoomAddDocResolvedIn(s) ==
    /\ roomSession[s].phase = "saving"
    /\ roomStore' = Append(roomStore, SubmissionDoc(RoomRun(s)))
    /\ roomSession' = [roomSession EXCEPT ![s].phase = "results"]
    /\ UNCHANGED <<roomQuiz, roomSnap, roomSummary>>
    /\ roomGaveBack' = ""
    /\ UNCHANGED notRoomVars

RoomAddDocResolved == \E s \in Sessions : RoomAddDocResolvedIn(s)

\* addDoc rejects: alert, the attempt stays open
RoomAddDocRejectedIn(s) ==
    /\ roomSession[s].phase = "saving"
    /\ roomSession' = [roomSession EXCEPT ![s].phase = "quiz"]
    /\ UNCHANGED <<roomQuiz, roomStore, roomSnap, roomSummary>>
    /\ roomGaveBack' = ""
    /\ UNCHANGED notRoomVars

RoomAddDocRejected == \E s \in Sessions : RoomAddDocRejectedIn(s)

\* the teacher's deleteSubmissionAttempt, confirmed, on the i-th document
deleteSubmissionAttempt(i) ==
    /\ i \in 1..Len(roomStore)
    /\ roomStore' = deleteDoc(roomStore, i)
    /\ UNCHANGED <<roomQuiz, roomSnap, roomSummary, roomSession>>
    /\ roomGaveBack' = ""
    /\ UNCHANGED notRoomVars

RoomDeleteAttempt == \E i \in 1..Len(roomStore) : deleteSubmissionAttempt(i)

\* ---- one session only: the other one stays at its list and submits nothing ----

TheSession == "a"

\* the quiz with maxAttempts 1, 2, 3 or without the field (1 by default)
SoloInit ==
    /\ roomQuiz \in { QuizDoc("q1", m, JsFalse, FALSE, FALSE) :
                         m \in {Undefined, Num(1), Num(2), Num(3)} }
    /\ roomStore = <<>>
    /\ roomSnap = [s \in Sessions |-> <<>>]
    /\ roomSummary = [s \in Sessions |-> EmptyMap]
    /\ roomSession = [s \in Sessions |-> RoomSessionAtList]
    /\ roomGaveBack = ""

SoloSnapshot == RoomSnapshotIn(TheSession)

SoloStart == RoomStartIn(TheSession)

SoloSubmit == RoomSubmitIn(TheSession)

SoloGradeResolved == RoomGradeResolvedIn(TheSession)

SoloAddDocResolved == RoomAddDocResolvedIn(TheSession)

SoloAddDocRejected == RoomAddDocRejectedIn(TheSession)

RoomIdle ==
    /\ roomQuiz = NoActiveQuiz
    /\ roomStore = <<>>
    /\ roomSnap = [s \in Sessions |-> <<>>]
    /\ roomSummary = [s \in Sessions |-> EmptyMap]
    /\ roomSession = [s \in Sessions |-> RoomSessionAtList]
    /\ roomGaveBack = ""

---------------------------------------------------------------------------
(* The grading proxy: exports.handler of netlify/functions/gradeQuiz.js.   *)
(* One invocation: the checks, the prompt, the calls to the model          *)
(* candidates, the response.                                               *)

\* the caps of the handler
MaxQuestions == 20
TitleCap == 200
FieldCap == 1200
\* "No answer provided".length
NoAnswerLength == 18

\* A text is the first `len` characters of a source text `base`, followed by
\* "..." when `ellipsis`; kind 'undefined' is a field that is not there.
NoText    == [kind |-> "undefined", base |-> "", len |-> 0, ellipsis |-> FALSE]
EmptyText == [kind |-> "string", base |-> "", len |-> 0, ellipsis |-> FALSE]
InputText(n) ==
    IF n = 0 THEN EmptyText
    ELSE [kind |-> "string", base |-> "input", len |-> n, ellipsis |-> FALSE]
NoAnswerProvided ==
    [kind |-> "string", base |-> "No answer provided", len |-> NoAnswerLength,
     ellipsis |-> FALSE]

\* a || b on texts: undefined and '' are falsy
TextOr(a, b) == IF a.kind = "string" /\ a.len > 0 THEN a ELSE b

\* text.length
TextLength(text) == text.len + (IF text.ellipsis THEN 3 ELSE 0)

\* text.slice(0, max)
TextSlice(text, max) == [text EXCEPT !.len = IF text.len > max THEN max ELSE text.len]

\* `${s}...`
WithEllipsis(text) == [text EXCEPT !.ellipsis = TRUE]

\* truncate without the marker (variant)
truncate_withoutMarker(value, max) ==
    LET text == TextOr(value, EmptyText)
    IN  IF TextLength(text) > max THEN TextSlice(text, max) ELSE text

\* the whole list kept (variant)
safeQuestions_all(questions) ==
    IF questions.isArray THEN questions.items ELSE <<>>

\* const truncate = (value, max = 1200) => ...
truncate(value, max) ==
    LET text == TextOr(value, EmptyText)
    IN  IF TextLength(text) > max THEN WithEllipsis(TextSlice(text, max)) ELSE text

\* Array.isArray(questions) ? questions.slice(0, 20) : []
safeQuestions(questions) ==
    IF questions.isArray
    THEN SubSeq(questions.items, 1,
                IF Len(questions.items) > MaxQuestions THEN MaxQuestions
                ELSE Len(questions.items))
    ELSE <<>>

\* studentAnswers[q.id]
AnswerOf(answers, id) ==
    IF id \in DOMAIN answers THEN answers[id] ELSE NoText

\* the prompt: the title line and one block per kept question
buildPrompt(data) ==
    LET kept == safeQuestions(data.questions)
    IN  [title   |-> truncate(data.quizTitle, TitleCap),
         entries |-> [i \in 1..Len(kept) |->
                        [id       |-> kept[i].id,
                         question |-> truncate(kept[i].text, FieldCap),
                         answer   |-> truncate(TextOr(AnswerOf(data.studentAnswers, kept[i].id),
                                                      NoAnswerProvided), FieldCap)]]]

NoPrompt == [title |-> NoText, entries |-> <<>>]

\* ---- the requests of the model ----

\* a list of n questions with ids 1..n: the first has the text `text`, the
\* others a short one
ProxyQuestions(n, text) ==
    [i \in 1..n |-> [id |-> i, text |-> IF i = 1 THEN text ELSE InputText(5)]]

\* answers to the questions 2..n, and `answer` to the first unless absent
ProxyAnswers(n, answer) ==
    [i \in (IF answer.kind = "undefined" THEN 2..n ELSE 1..n)
        |-> IF i = 1 THEN answer ELSE InputText(3)]

ProxyBody(title, n, text, answer) ==
    [parses |-> TRUE, quizTitle |-> title,
     questions |-> [isArray |-> TRUE, items |-> ProxyQuestions(n, text)],
     studentAnswers |-> ProxyAnswers(n, answer)]

\* a body JSON.parse rejects
MalformedBody ==
    [parses |-> FALSE, quizTitle |-> NoText,
     questions |-> [isArray |-> FALSE, items |-> <<>>],
     studentAnswers |-> ProxyAnswers(0, NoText)]

\* a body whose `questions` is not an array
BodyWithoutQuestionList ==
    [parses |-> TRUE, quizTitle |-> InputText(10),
     questions |-> [isArray |-> FALSE, items |-> <<>>],
     studentAnswers |-> ProxyAnswers(0, NoText)]

ProxyBodies ==
    { ProxyBody(title, n, text, answer) :
        title  \in {NoText, InputText(TitleCap), InputText(TitleCap + 1)},
        n      \in {0, 1, MaxQuestions, MaxQuestions + 1},
        text   \in {NoText, InputText(FieldCap), InputText(2000)},
        answer \in {NoText, EmptyText, InputText(FieldCap), InputText(FieldCap + 1)} }
      \cup {MalformedBody, BodyWithoutQuestionList}

\* process.env.GEMINI_MODEL || "gemini-2.0-flash-lite"
ConfiguredModels == {"gemini-2.0-flash-lite", "gemini-2.0-flash"}

\* Number(process.env.GEMINI_TIMEOUT_MS || 7000)
DefaultTimeoutMs == 7000
TimeoutSettings == {DefaultTimeoutMs, 4040}

ProxyEvents ==
    [hasApiKey : BOOLEAN, configuredModel : ConfiguredModels, timeoutMs : TimeoutSettings,
     httpMethod : {"POST", "GET"}, body : ProxyBodies]

\* [...new Set([configuredModel, "gemini-2.0-flash"])]
modelCandidates(configuredModel) ==
    IF configuredModel = "gemini-2.0-flash" THEN <<"gemini-2.0-flash">>
    ELSE <<configuredModel, "gemini-2.0-flash">>

\* what one generateContent call comes to: a text that cleans up to an object
\* with evaluations, to one without, to nothing parseable, an empty text; an
\* error that reads as 404 / not found; another error; the timeout
ModelOutcomes ==
    {"evaluations", "noEvaluations", "notJson", "emptyText", "notFound", "error", "timeout"}

\* what becomes of the promise of model.generateContent(prompt): it settles
\* in time with one of the outcomes, or it does not ('never')
ModelFates == (ModelOutcomes \ {"timeout"}) \cup {"never"}

\* the call awaited as it is (variant)
withTimeout_awaitOnly(fate) == fate

\* Promise.race of the call and the timer that rejects after timeoutMs
withTimeout(fate) == IF fate = "never" THEN "timeout" ELSE fate

\* no client: the handler invoked directly
NoGradeCall == [stage |-> "none", isSubmitting |-> FALSE, gradingData |-> "", stored |-> FALSE]

\* the decimal digits of a natural number, as `${timeoutMs}` writes them
RECURSIVE DecimalDigits(_)
DecimalDigits(n) ==
    IF n < 10 THEN <<n>> ELSE Append(DecimalDigits(n \div 10), n % 10)

\* `Timeout after ${timeoutMs}ms (model ${modelName})`.includes("404"): the
\* candidates' names hold no "404", the digits of timeoutMs may
TimeoutMessageIncludes404(timeoutMs) ==
    LET digits == DecimalDigits(timeoutMs)
    IN  \E i \in 1..(Len(digits) - 2) :
            digits[i] = 4 /\ digits[i + 1] = 0 /\ digits[i + 2] = 4

\* a failure classified without reading what failed (variant)
isNotFound_byOutcome(outcome, timeoutMs) == outcome = "notFound"

\* a failure that never moves on (variant)
isNotFound_never(outcome, timeoutMs) == FALSE

\* status === 404 || message.includes("404") || message.toLowerCase().includes("not found")
isNotFound(outcome, timeoutMs) ==
    \/ outcome = "notFound"
    \/ outcome = "timeout" /\ TimeoutMessageIncludes404(timeoutMs)

NoResponse == [returned |-> FALSE, statusCode |-> 0, body |-> ""]
Response(statusCode, body) == [returned |-> TRUE, statusCode |-> statusCode, body |-> body]

ProxyReceived ==
    [stage |-> "received", prompt |-> NoPrompt, candidates |-> <<>>, next |-> 0, calls |-> 0,
     log |-> <<>>]

ProxyInit ==
    /\ proxyEvent \in ProxyEvents
    /\ proxyRun = ProxyReceived
    /\ proxyResponse = NoResponse
    /\ gradeCall = NoGradeCall

\* the handler up to the first model call
ProxyReceive ==
    /\ proxyRun.stage = "received"
    /\ IF ~proxyEvent.hasApiKey
       THEN /\ proxyResponse' = Response(500, "Server Configuration Error")
            /\ proxyRun' = [proxyRun EXCEPT !.stage = "returned"]
       ELSE IF proxyEvent.httpMethod # "POST"
       THEN /\ proxyResponse' = Response(405, "Method Not Allowed")
            /\ proxyRun' = [proxyRun EXCEPT !.stage = "returned"]
       ELSE IF ~proxyEvent.body.parses               \* JSON.parse throws: the catch
       THEN /\ proxyResponse' = Response(500, "error")
            /\ proxyRun' = [proxyRun EXCEPT !.stage = "returned"]
       ELSE /\ proxyRun' = [stage |-> "calling",
                            prompt |-> buildPrompt(proxyEvent.body),
                            candidates |-> modelCandidates(proxyEvent.configuredModel),
                            next |-> 1, calls |-> 0, log |-> <<>>]
            /\ UNCHANGED proxyResponse
    /\ UNCHANGED <<proxyEvent, gradeCall>>
    /\ UNCHANGED notProxyVars

\* the call of candidate `next` entered in the run: log holds the model
\* called and what the call came to
ProxyCalled(outcome) ==
    [proxyRun EXCEPT !.calls = @ + 1,
                     !.log = Append(@, [model |-> proxyRun.candidates[proxyRun.next],
                                        outcome |-> outcome])]

\* one pass of the loop over modelCandidates, and what follows the loop
ProxyModelReturns ==
    /\ proxyRun.stage = "calling"
    /\ \E fate \in ModelFates :
          LET outcome == withTimeout(fate) IN
          CASE outcome = "evaluations" ->
                 /\ proxyResponse' = Response(200, "evaluations")
                 /\ proxyRun' = [ProxyCalled(outcome) EXCEPT !.stage = "returned"]
            [] outcome \in {"noEvaluations", "notJson", "emptyText"} ->
                 /\ proxyResponse' = Response(500, "error")
                 /\ proxyRun' = [ProxyCalled(outcome) EXCEPT !.stage = "returned"]
            [] outcome \in {"notFound", "error", "timeout"} ->
                 IF /\ isNotFound(outcome, proxyEvent.timeoutMs)
                    /\ proxyRun.next < Len(proxyRun.candidates)
                 THEN /\ proxyRun' = [ProxyCalled(outcome) EXCEPT !.next = @ + 1]
                      /\ UNCHANGED proxyResponse
                 ELSE \* rethrown, or the loop is over with no text: the catch
                      /\ proxyResponse' = Response(500, "error")
                      /\ proxyRun' = [ProxyCalled(outcome) EXCEPT !.stage = "returned"]
            [] outcome = "never" ->              \* an await that never resumes
                 /\ proxyRun' = [ProxyCalled(outcome) EXCEPT !.stage = "pending"]
                 /\ UNCHANGED proxyResponse
    /\ UNCHANGED <<proxyEvent, gradeCall>>
    /\ UNCHANGED notProxyVars

\* ---- the client of the proxy: gradeSubmission, awaited by submitQuiz ----

\* submitQuiz has set isSubmitting and gradeSubmission has sent its POST: the
\* body is JSON.stringify of an object with the quiz's questions (an array)
GradeCallInit ==
    /\ proxyEvent \in {e \in ProxyEvents :
                          /\ e.httpMethod = "POST"
                          /\ e.body.parses
                          /\ e.body.questions.isArray}
    /\ proxyRun = ProxyReceived
    /\ proxyResponse = NoResponse
    /\ gradeCall = [stage |-> "fetching", isSubmitting |-> TRUE, gradingData |-> "",
                    stored |-> FALSE]

\* fetch resolves with the handler's response: the payload when response.ok,
\* else the throw, the alert and null
FetchResolved ==
    /\ gradeCall.stage = "fetching"
    /\ proxyResponse.returned
    /\ gradeCall' = [gradeCall EXCEPT
                        !.stage = "writing",
                        !.gradingData = IF proxyResponse.statusCode \in 200..299
                                        THEN proxyResponse.body ELSE "null"]
    /\ UNCHANGED <<proxyEvent, proxyRun, proxyResponse>>
    /\ UNCHANGED notProxyVars

\* fetch rejects (the network): the catch, the alert and null
FetchRejected ==
    /\ gradeCall.stage = "fetching"
    /\ gradeCall' = [gradeCall EXCEPT !.stage = "writing", !.gradingData = "null"]
    /\ UNCHANGED <<proxyEvent, proxyRun, proxyResponse>>
    /\ UNCHANGED notProxyVars

\* await addDoc(...) resolved: the results view, setIsSubmitting(false)
GradeCallDocAdded ==
    /\ gradeCall.stage = "writing"
    /\ gradeCall' = [gradeCall EXCEPT !.stage = "results", !.isSubmitting = FALSE,
                                      !.stored = TRUE]
    /\ UNCHANGED <<proxyEvent, proxyRun, proxyResponse>>
    /\ UNCHANGED notProxyVars

\* await addDoc(...) rejected: the alert, setIsSubmitting(false), return
GradeCallDocRejected ==
    /\ gradeCall.stage = "writing"
    /\ gradeCall' = [gradeCall EXCEPT !.stage = "quiz", !.isSubmitting = FALSE]
    /\ UNCHANGED <<proxyEvent, proxyRun, proxyResponse>>
    /\ UNCHANGED notProxyVars

ProxyIdle ==
    /\ proxyEvent = [hasApiKey |-> FALSE, configuredModel |-> "gemini-2.0-flash-lite",
                     timeoutMs |-> DefaultTimeoutMs, httpMethod |-> "GET", body |-> MalformedBody]
    /\ proxyRun = ProxyReceived
    /\ proxyResponse = NoResponse
    /\ gradeCall = NoGradeCall

---------------------------------------------------------------------------
(* The teacher's dashboard (TeacherDashboard.jsx:34-330) with the quiz     *)
(* editor (MathEditor): classes and their archive flag, startNewQuiz, the  *)
(* editor's question list, saveQuiz and what it tells the teacher when the *)
(* write fails.                                                            *)

EdClassIds == {"c1"}

\* the clock's last value, and the longest question list of the editor
MaxClock == 2
MaxEditorQuestions == 2

\* what a rejected setDoc hands to the catch: error?.code, error?.message
\* ('' for a field that is not there)
PermissionsMessage == "Missing or insufficient permissions."
UnavailableMessage == "The service is currently unavailable."
StoreErrors ==
    {[code |-> "permission-denied", message |-> PermissionsMessage],
     [code |-> "permission-denied", message |-> ""],
     [code |-> "unavailable", message |-> UnavailableMessage],
     [code |-> "unavailable", message |-> ""]}

\* alert(text): the fixed part and the part taken from the error
Alert(text, detail) == <<text, detail>>
NoAlert == Alert("", "")

\* the catch of the copy of saveQuiz at TeacherDashboard.jsx:563-574
saveQuizAlert_byCode(error) ==
    IF error.code = "permission-denied" \/ error.message = PermissionsMessage
    THEN Alert("Failed to save quiz: Firestore rules denied write access. Ensure your signed-in teacher account is allowed to write to the quizzes collection.", "")
    ELSE Alert("Failed to save quiz: ", IF error.message # "" THEN error.message ELSE "Unknown error")

\* alert(`Failed to save quiz: ${error?.message || 'Unknown error'}`)
saveQuizAlert(error) ==
    Alert("Failed to save quiz: ", IF error.message # "" THEN error.message ELSE "Unknown error")

\* 'q-' + Date.now(): an id is the clock value it was made from; the ids that
\* buildQuizPayload makes, `q-${Date.now()}-${idx}`, have the index as well
QuestionId(now) == <<now>>
PayloadQuestionId(now, idx) == <<now, idx>>

NoEditorQuiz == [present |-> FALSE, classId |-> "", questions |-> <<>>]

\* Object.fromEntries(classes.map((row) => [row.id, row]))
classLookup == edClasses

\* selectedClassId === 'all' ? null : classLookup[selectedClassId] || null
HasSelectedClass == edSelectedClassId # "all" /\ edSelectedClassId \in DOMAIN classLookup

\* the questions of buildQuizPayload: q?.id || `q-${Date.now()}-${idx}`
buildQuizPayload(quiz, now) ==
    [classId   |-> quiz.classId,
     questions |-> [i \in 1..Len(quiz.questions) |->
                      [id   |-> IF quiz.questions[i].id # <<>> THEN quiz.questions[i].id
                                ELSE PayloadQuestionId(now, i - 1),
                       text |-> quiz.questions[i].text]]]

NothingWritten == [present |-> FALSE, doc |-> buildQuizPayload(NoEditorQuiz, 0),
                   classArchived |-> FALSE]

EditorInit ==
    /\ edNow = 0
    /\ edClassStore \in [EdClassIds -> [isArchived : BOOLEAN]]
    /\ edClasses = [c \in {} |-> [isArchived |-> FALSE]]
    /\ edSelectedClassId = "all"
    /\ edView = "list"
    /\ edActiveQuiz = NoEditorQuiz
    /\ edWritten = NothingWritten
    /\ edAlert = NoAlert

\* a millisecond passes
EditorTick ==
    /\ edNow < MaxClock
    /\ edNow' = edNow + 1
    /\ UNCHANGED <<edClassStore, edClasses, edSelectedClassId, edView, edActiveQuiz,
                   edWritten, edAlert>>
    /\ UNCHANGED notEditorVars

\* useTeacherClasses: onSnapshot delivers the classes as they are stored
EditorClassesSnapshot ==
    /\ edClasses # edClassStore
    /\ edClasses' = edClassStore
    /\ UNCHANGED <<edNow, edClassStore, edSelectedClassId, edView, edActiveQuiz,
                   edWritten, edAlert>>
    /\ UNCHANGED notEditorVars

\* the class select of the list view: setSelectedClassId
EditorSelectClass ==
    /\ edView = "list"
    /\ \E c \in (DOMAIN edClasses) \cup {"all"} :
          /\ c # edSelectedClassId
          /\ edSelectedClassId' = c
    /\ UNCHANGED <<edNow, edClassStore, edClasses, edView, edActiveQuiz, edWritten, edAlert>>
    /\ UNCHANGED notEditorVars

\* toggleArchiveClass(classroom), classroom a row of the list view: the
\* write resolves (merge of isArchived: !classroom.isArchived) or rejects
toggleArchiveClass ==
    /\ edView = "list"
    /\ \E c \in DOMAIN edClasses :
          \/ /\ edClassStore' = [edClassStore EXCEPT ![c].isArchived = ~edClasses[c].isArchived]
             /\ UNCHANGED edAlert
          \/ /\ edAlert' = Alert("Failed to update class.", "")
             /\ UNCHANGED edClassStore
    /\ UNCHANGED <<edNow, edClasses, edSelectedClassId, edView, edActiveQuiz, edWritten>>
    /\ UNCHANGED notEditorVars

\* toggleArchiveClass in another dashboard the teacher has open, whose rows
\* are the stored ones
OtherDashboardToggleArchive ==
    /\ \E c \in EdClassIds :
          edClassStore' = [edClassStore EXCEPT ![c].isArchived = ~edClassStore[c].isArchived]
    /\ UNCHANGED <<edNow, edClasses, edSelectedClassId, edView, edActiveQuiz, edWritten, edAlert>>
    /\ UNCHANGED notEditorVars

startNewQuiz ==
    /\ edView = "list"
    /\ IF ~HasSelectedClass
       THEN /\ edAlert' = Alert("Select a class first.", "")
            /\ UNCHANGED <<edView, edActiveQuiz>>
       ELSE IF classLookup[edSelectedClassId].isArchived
       THEN /\ edAlert' = Alert("Cannot add quiz to archived class.", "")
            /\ UNCHANGED <<edView, edActiveQuiz>>
       ELSE /\ edActiveQuiz' = [present |-> TRUE, classId |-> edSelectedClassId,
                                questions |-> <<[id |-> QuestionId(edNow), text |-> ""]>>]
            /\ edView' = "new"
            /\ UNCHANGED edAlert
    /\ UNCHANGED <<edNow, edClassStore, edClasses, edSelectedClassId, edWritten>>
    /\ UNCHANGED notEditorVars

\* MathEditor: setQuiz({ ...quiz, questions: [...(quiz.questions || []), newQ] })
addQuestion ==
    /\ edView = "new" /\ edActiveQuiz.present
    /\ Len(edActiveQuiz.questions) < MaxEditorQuestions
    /\ edActiveQuiz' = [edActiveQuiz EXCEPT
                          !.questions = Append(@, [id |-> QuestionId(edNow), text |-> ""])]
    /\ UNCHANGED <<edNow, edClassStore, edClasses, edSelectedClassId, edView, edWritten, edAlert>>
    /\ UNCHANGED notEditorVars

\* MathEditor: quiz.questions.filter((_, i) => i !== index)
deleteQuestion ==
    /\ edView = "new" /\ edActiveQuiz.present
    /\ \E index \in 1..Len(edActiveQuiz.questions) :
          edActiveQuiz' = [edActiveQuiz EXCEPT
                             !.questions = SubSeq(@, 1, index - 1) \o SubSeq(@, index + 1, Len(@))]
    /\ UNCHANGED <<edNow, edClassStore, edClasses, edSelectedClassId, edView, edWritten, edAlert>>
    /\ UNCHANGED notEditorVars

\* MathEditor: newQuestions[index] = newQ, with the newQ of QuestionEditor,
\* { ...question, text }
updateQuestion ==
    /\ edView = "new" /\ edActiveQuiz.present
    /\ \E index \in 1..Len(edActiveQuiz.questions), text \in {"", "x"} :
          /\ edActiveQuiz.questions[index].text # text
          /\ edActiveQuiz' = [edActiveQuiz EXCEPT !.questions[index].text = text]
    /\ UNCHANGED <<edNow, edClassStore, edClasses, edSelectedClassId, edView, edWritten, edAlert>>
    /\ UNCHANGED notEditorVars

\* saveQuiz of TeacherDashboard.jsx:146-169, view 'new': the check of the
\* class, then setDoc resolved or rejected with an error
saveQuiz ==
    /\ edView = "new" /\ edActiveQuiz.present
    /\ IF edActiveQuiz.classId = "" \/ edActiveQuiz.classId \notin DOMAIN classLookup
       THEN /\ edAlert' = Alert("Choose one of your classes for this quiz.", "")
            /\ UNCHANGED <<edView, edActiveQuiz, edWritten>>
       ELSE \/ /\ edWritten' = [present |-> TRUE,
                                doc |-> buildQuizPayload(edActiveQuiz, edNow),
                                classArchived |-> edClassStore[edActiveQuiz.classId].isArchived]
               /\ edView' = "list"
               /\ edActiveQuiz' = NoEditorQuiz
               /\ UNCHANGED edAlert
            \/ \E error \in StoreErrors :
                  /\ edAlert' = saveQuizAlert(error)
                  /\ UNCHANGED <<edView, edActiveQuiz, edWritten>>
    /\ UNCHANGED <<edNow, edClassStore, edClasses, edSelectedClassId>>
    /\ UNCHANGED notEditorVars

EditorIdle ==
    /\ edNow = 0
    /\ edClassStore = [c \in EdClassIds |-> [isArchived |-> FALSE]]
    /\ edClasses = [c \in {} |-> [isArchived |-> FALSE]]
    /\ edSelectedClassId = "all"
    /\ edView = "list"
    /\ edActiveQuiz = NoEditorQuiz
    /\ edWritten = NothingWritten
    /\ edAlert = NoAlert

---------------------------------------------------------------------------
(* The legacy migration of the dashboard (TeacherDashboard.jsx:80-121):    *)
(* useTeacherQuizzes, the effect that looks for quizzes without classId,   *)
(* getOrCreateDefaultClass, the writes of the classId, deleteClassroom.    *)

Dashboards == {"d1", "d2"}
MgQuizIds == {"k1", "k2"}

\* doc(collection(db, 'classes')).id: an id of its own for every document
AutoClassId == [d \in Dashboards |-> IF d = "d1" THEN "auto-d1" ELSE "auto-d2"]

\* the class documents there may be to begin with: a class the teacher made,
\* the default class of an earlier migration
TeacherClass == [id |-> "c0", isDefault |-> FALSE]
EarlierDefaultClass == [id |-> "cd", isDefault |-> TRUE]

\* a quiz that is not stored
Absent == "absent"

NoMigrationRun == [stage |-> "none", legacy |-> {}, defaultId |-> ""]

Unmounted ==
    [mounted |-> FALSE, listening |-> FALSE, quizzes |-> [q \in {} |-> ""],
     effectDue |-> FALSE,
     legacyHandled |-> FALSE, isMigratingLegacy |-> FALSE, run |-> NoMigrationRun]

\* useTeacherQuizzes: the documents of the snapshot, quiz id -> classId
StoredQuizzes == [q \in {k \in MgQuizIds : mgQuizStore[k] # Absent} |-> mgQuizStore[q]]

\* where('teacherId', '==', user.uid), where('isDefault', '==', true)
DefaultClasses == {c \in mgClassStore : c.isDefault}

MigrationInit ==
    /\ mgClassStore \in {{TeacherClass}, {TeacherClass, EarlierDefaultClass}}
    /\ mgQuizStore \in [MgQuizIds -> {Absent, "", "c0"}]
    /\ mgDash = [d \in Dashboards |-> Unmounted]

\* the dashboard is opened: first render with quizzes = [], effects due
MgMount(d) ==
    /\ ~mgDash[d].mounted
    /\ mgDash' = [mgDash EXCEPT ![d] = [Unmounted EXCEPT !.mounted = TRUE, !.effectDue = TRUE]]
    /\ UNCHANGED <<mgClassStore, mgQuizStore>>
    /\ UNCHANGED notMigrationVars

MgMountSome == \E d \in Dashboards : MgMount(d)

\* the dashboard is closed (no run of its own is in flight)
MgUnmount(d) ==
    /\ mgDash[d].mounted
    /\ mgDash[d].run.stage = "none"
    /\ mgDash' = [mgDash EXCEPT ![d] = Unmounted]
    /\ UNCHANGED <<mgClassStore, mgQuizStore>>
    /\ UNCHANGED notMigrationVars

MgUnmountSome == \E d \in Dashboards : MgUnmount(d)

\* useTeacherQuizzes: onSnapshot, once subscribed, delivers the stored
\* quizzes; the effect's dependency `quizzes` has changed
MgQuizzesSnapshot(d) ==
    /\ mgDash[d].mounted
    /\ mgDash[d].listening
    /\ mgDash[d].quizzes # StoredQuizzes
    /\ mgDash' = [mgDash EXCEPT ![d].quizzes = StoredQuizzes, ![d].effectDue = TRUE]
    /\ UNCHANGED <<mgClassStore, mgQuizStore>>
    /\ UNCHANGED notMigrationVars

MgQuizzesSnapshotSome == \E d \in Dashboards : MgQuizzesSnapshot(d)

\* a quiz saved without classId: the saveQuiz of TeacherDashboard.jsx:542-562
\* writes classId: quiz.classId || ''
MgLegacyQuizSaved ==
    /\ \E q \in MgQuizIds :
          /\ mgQuizStore[q] = Absent
          /\ mgQuizStore' = [mgQuizStore EXCEPT ![q] = ""]
    /\ UNCHANGED <<mgClassStore, mgDash>>
    /\ UNCHANGED notMigrationVars

\* one flush of the dashboard's due effects: after the first render the
\* subscription of useTeacherQuizzes (part_004:375-394), then one pass of the
\* effect of TeacherDashboard.jsx:96-121, up to `void run()` and the first
\* await of run
MigrationEffect(d) ==
    /\ mgDash[d].mounted
    /\ mgDash[d].effectDue
    /\ LET legacy == {q \in DOMAIN mgDash[d].quizzes : mgDash[d].quizzes[q] = ""}
       IN  IF mgDash[d].legacyHandled
           THEN mgDash' = [mgDash EXCEPT ![d].effectDue = FALSE, ![d].listening = TRUE]
           ELSE IF legacy = {}
           THEN \* setLegacyHandled(true): a dependency has changed
                mgDash' = [mgDash EXCEPT ![d].legacyHandled = TRUE, ![d].effectDue = TRUE,
                                         ![d].listening = TRUE]
           ELSE mgDash' = [mgDash EXCEPT
                              ![d].effectDue = FALSE,
                              ![d].listening = TRUE,
                              ![d].isMigratingLegacy = TRUE,
                              ![d].run = [stage |-> "querying", legacy |-> legacy,
                                          defaultId |-> ""]]
    /\ UNCHANGED <<mgClassStore, mgQuizStore>>
    /\ UNCHANGED notMigrationVars

MigrationEffectSome == \E d \in Dashboards : MigrationEffect(d)

\* getOrCreateDefaultClass, its getDocs resolved: the first default class
\* found, or on to the setDoc of a new one
getOrCreateDefaultClass(d) ==
    /\ mgDash[d].run.stage = "querying"
    /\ IF DefaultClasses # {}
       THEN \E row \in DefaultClasses :
               mgDash' = [mgDash EXCEPT ![d].run.stage = "assigning",
                                        ![d].run.defaultId = row.id]
       ELSE mgDash' = [mgDash EXCEPT ![d].run.stage = "creating"]

MgGetDocsResolved ==
    /\ \E d \in Dashboards : getOrCreateDefaultClass(d)
    /\ UNCHANGED <<mgClassStore, mgQuizStore>>
    /\ UNCHANGED notMigrationVars

\* await setDoc(classRef, payload) resolved: the new default class is stored
MgDefaultClassStored(d) ==
    /\ mgDash[d].run.stage = "creating"
    /\ mgClassStore' = mgClassStore \cup {[id |-> AutoClassId[d], isDefault |-> TRUE]}
    /\ mgDash' = [mgDash EXCEPT ![d].run.stage = "assigning",
                                ![d].run.defaultId = AutoClassId[d]]
    /\ UNCHANGED mgQuizStore
    /\ UNCHANGED notMigrationVars

MgDefaultClassStoredSome == \E d \in Dashboards : MgDefaultClassStored(d)

\* Promise.all of the setDoc(..., { classId: defaultClass.id, ... }, { merge:
\* true }) resolved, then the finally
MgQuizzesAssigned(d) ==
    /\ mgDash[d].run.stage = "assigning"
    /\ mgQuizStore' = [q \in MgQuizIds |->
                          IF q \in mgDash[d].run.legacy THEN mgDash[d].run.defaultId
                          ELSE mgQuizStore[q]]
    /\ mgDash' = [mgDash EXCEPT ![d].run = NoMigrationRun,
                                ![d].isMigratingLegacy = FALSE,
                                ![d].legacyHandled = TRUE,
                                ![d].effectDue = TRUE]
    /\ UNCHANGED mgClassStore
    /\ UNCHANGED notMigrationVars

MgQuizzesAssignedSome == \E d \in Dashboards : MgQuizzesAssigned(d)

\* an await of the run rejected: the catch logs, then the finally
MgRunRejected(d) ==
    /\ mgDash[d].run.stage \in {"querying", "creating", "assigning"}
    /\ mgDash' = [mgDash EXCEPT ![d].run = NoMigrationRun,
                                ![d].isMigratingLegacy = FALSE,
                                ![d].legacyHandled = TRUE,
                                ![d].effectDue = TRUE]
    /\ UNCHANGED <<mgClassStore, mgQuizStore>>
    /\ UNCHANGED notMigrationVars

MgRunRejectedSome == \E d \in Dashboards : MgRunRejected(d)

\* deleteClassroom(classroom): refused for the default class and for a class
\* that a quiz of the dashboard's snapshot is in; else the class is deleted
deleteClassroom(d, classroom) ==
    /\ mgDash[d].mounted
    /\ classroom \in mgClassStore
    /\ IF classroom.isDefault
       THEN UNCHANGED mgClassStore
       ELSE IF \E q \in DOMAIN mgDash[d].quizzes : mgDash[d].quizzes[q] = classroom.id
       THEN UNCHANGED mgClassStore
       ELSE mgClassStore' = mgClassStore \ {classroom}
    /\ UNCHANGED <<mgQuizStore, mgDash>>
    /\ UNCHANGED notMigrationVars

MgDeleteClassroom == \E d \in Dashboards, classroom \in mgClassStore : deleteClassroom(d, classroom)

\* the dashboards open, each with its quizzes delivered before the effect
\* has made its first pass
MigrationInitDelivered ==
    /\ mgClassStore \in {{TeacherClass}, {TeacherClass, EarlierDefaultClass}}
    /\ mgQuizStore \in [MgQuizIds -> {Absent, "", "c0"}]
    /\ mgDash = [d \in Dashboards |->
                    [Unmounted EXCEPT !.mounted = TRUE, !.listening = TRUE,
                                      !.effectDue = TRUE, !.quizzes = StoredQuizzes]]

MigrationIdle ==
    /\ mgClassStore = {TeacherClass}
    /\ mgQuizStore = [q \in MgQuizIds |-> Absent]
    /\ mgDash = [d \in Dashboards |-> Unmounted]

TeacherIdle == EditorIdle /\ MigrationIdle

---------------------------------------------------------------------------
(* Specifications *)

LedgerNext    == LedgerAdd \/ SnapshotAfterDelete \/ SnapshotAgain
LedgerNextRaw == LedgerAddRaw \/ SnapshotAfterDelete \/ SnapshotAgain

\* the harnesses added to the first three, at rest
HarnessesIdle == HistoryIdle /\ FeedIdle /\ RoomIdle /\ ProxyIdle /\ TeacherIdle

InitLedger == LedgerInit /\ InfoIdle /\ SysIdle /\ HarnessesIdle

SpecLedger    == InitLedger /\ [][LedgerNext]_vars
SpecLedgerRaw == InitLedger /\ [][LedgerNextRaw]_vars

InfoNext == CallGetAttemptInfo

InitAttemptInfo == InfoInit /\ LedgerIdle /\ SysIdle /\ HarnessesIdle

SpecAttemptInfo == InitAttemptInfo /\ [][InfoNext]_vars

Next ==
    \/ ClassesSnapshot \/ SelectClass \/ QuizSnapshot \/ SubmissionsSnapshot
    \/ TeacherSaveQuiz \/ TryStartQuiz \/ handleAnswerChange \/ SubmitQuiz
    \/ GradeResolved \/ AddDocResolved \/ AddDocRejected \/ BackToQuizzes

Init == SysInit /\ LedgerInit /\ InfoIdle /\ HarnessesIdle

Spec == Init /\ [][Next]_vars

NextJsx ==
    \/ QuizSnapshotJsx \/ SubmissionsSnapshot \/ TeacherSaveQuiz \/ TryStartQuizJsx
    \/ handleAnswerChange \/ SubmitQuiz \/ GradeResolvedJsx \/ AddDocResolvedJsx
    \/ AddDocRejectedJsx \/ BackToQuizzes

SpecStudentViewJsx == Init /\ [][NextJsx]_vars

HistoryNext == HistoryAdd \/ HistoryDelete

InitHistory == HistoryInit /\ LedgerIdle /\ InfoIdle /\ SysIdle /\ FeedIdle /\ RoomIdle /\ ProxyIdle /\ TeacherIdle

SpecHistory == InitHistory /\ [][HistoryNext]_vars

FeedNext ==
    \/ FeedStoreAdd \/ FeedStoreDelete \/ FeedQuizChange
    \/ FeedQuizzesSnapshot \/ FeedSubmissionsSnapshot \/ FeedSubmissionsError

InitFeed == FeedInit /\ LedgerIdle /\ InfoIdle /\ SysIdle /\ HistoryIdle /\ RoomIdle /\ ProxyIdle /\ TeacherIdle

SpecFeed == InitFeed /\ [][FeedNext]_vars

RoomNext ==
    \/ RoomSnapshot \/ RoomStart \/ RoomSubmit \/ RoomGradeResolved
    \/ RoomAddDocResolved \/ RoomAddDocRejected \/ RoomDeleteAttempt

InitRoom == RoomInit /\ LedgerIdle /\ InfoIdle /\ SysIdle /\ HistoryIdle /\ FeedIdle /\ ProxyIdle /\ TeacherIdle

SpecTwoSessions == InitRoom /\ [][RoomNext]_vars

\* one session of the student, the quiz as it is, nothing deleted
SoloNext ==
    \/ SoloSnapshot \/ SoloStart \/ SoloSubmit \/ SoloGradeResolved
    \/ SoloAddDocResolved \/ SoloAddDocRejected

InitOneSession ==
    /\ SoloInit /\ LedgerIdle /\ InfoIdle /\ SysIdle /\ HistoryIdle /\ FeedIdle /\ ProxyIdle
    /\ TeacherIdle

SpecOneSession == InitOneSession /\ [][SoloNext]_vars

\* one session of the student and the teacher deleting attempts
SoloTeacherNext ==
    \/ SoloSnapshot \/ SoloStart \/ SoloSubmit \/ SoloGradeResolved
    \/ SoloAddDocResolved \/ SoloAddDocRejected \/ RoomDeleteAttempt

SpecOneSessionAndTeacher == InitOneSession /\ [][SoloTeacherNext]_vars

ProxyNext == ProxyReceive \/ ProxyModelReturns

InitProxy ==
    /\ ProxyInit /\ LedgerIdle /\ InfoIdle /\ SysIdle /\ HistoryIdle /\ FeedIdle /\ RoomIdle
    /\ TeacherIdle

SpecProxy == InitProxy /\ [][ProxyNext]_vars

GradeCallNext ==
    \/ ProxyReceive
    \/ ProxyModelReturns
    \/ FetchResolved
    \/ FetchRejected
    \/ GradeCallDocAdded
    \/ GradeCallDocRejected

InitGradeCall ==
    /\ GradeCallInit /\ LedgerIdle /\ InfoIdle /\ SysIdle /\ HistoryIdle /\ FeedIdle /\ RoomIdle
    /\ TeacherIdle

\* The handler runs on; each model call settles or its timer fires; the
\* response of a handler that has returned reaches the fetch (a rejection of
\* the fetch may happen, and is not relied on); the write of the document
\* resolves or rejects.
GradeCallFairness ==
    /\ WF_vars(ProxyReceive)
    /\ WF_vars(ProxyModelReturns)
    /\ WF_vars(FetchResolved)
    /\ WF_vars(GradeCallDocAdded \/ GradeCallDocRejected)

SpecGradeCall == InitGradeCall /\ [][GradeCallNext]_vars /\ GradeCallFairness

EditorNext ==
    \/ EditorTick
    \/ EditorClassesSnapshot
    \/ EditorSelectClass
    \/ toggleArchiveClass
    \/ OtherDashboardToggleArchive
    \/ startNewQuiz
    \/ addQuestion
    \/ deleteQuestion
    \/ updateQuestion
    \/ saveQuiz

InitEditor ==
    /\ EditorInit /\ LedgerIdle /\ InfoIdle /\ SysIdle /\ HistoryIdle /\ FeedIdle /\ RoomIdle
    /\ ProxyIdle /\ MigrationIdle

SpecEditor == InitEditor /\ [][EditorNext]_vars

\* The dashboards as they run: no pass of the effect finds a legacy quiz
\* (C28_MigrationNeverStarts), so the steps of the run are not among these.
MigrationNext ==
    \/ MgMountSome
    \/ MgUnmountSome
    \/ MgQuizzesSnapshotSome
    \/ MgLegacyQuizSaved
    \/ MigrationEffectSome
    \/ MgDeleteClassroom

InitMigration ==
    /\ MigrationInit /\ LedgerIdle /\ InfoIdle /\ SysIdle /\ HistoryIdle /\ FeedIdle /\ RoomIdle
    /\ ProxyIdle /\ EditorIdle

\* snapshots are delivered and due effects run
MigrationFairness ==
    \A d \in Dashboards : WF_vars(MgQuizzesSnapshot(d)) /\ WF_vars(MigrationEffect(d))

SpecMigration == InitMigration /\ [][MigrationNext]_vars /\ MigrationFairness

\* The runs of getOrCreateDefaultClass that the migration would make if a
\* pass of the effect found the quizzes delivered.
DefaultClassNext ==
    \/ MgQuizzesSnapshotSome
    \/ MgLegacyQuizSaved
    \/ MigrationEffectSome
    \/ MgGetDocsResolved
    \/ MgDefaultClassStoredSome
    \/ MgQuizzesAssignedSome
    \/ MgRunRejectedSome
    \/ MgDeleteClassroom

InitDefaultClass ==
    /\ MigrationInitDelivered /\ LedgerIdle /\ InfoIdle /\ SysIdle /\ HistoryIdle /\ FeedIdle
    /\ RoomIdle /\ ProxyIdle /\ EditorIdle

SpecDefaultClass == InitDefaultClass /\ [][DefaultClassNext]_vars

---------------------------------------------------------------------------
(* Reading a snapshot without the fold: what the claims compare against    *)

DocIndexes(docs, q) == { i \in 1..Len(docs) : docs[i].quizId = q }

QuizIdsOf(docs) == { docs[i].quizId : i \in 1..Len(docs) } \ {""}

\* the stored attemptNumber read as a number: absent reads as 0
StoredNumber(doc) == IF doc.attemptNumber.t = "number" THEN doc.attemptNumber.n ELSE 0

\* a record the fold can select: attemptNumber absent, zero or positive
Selectable(doc) ==
    \/ doc.attemptNumber.t = "undefined"
    \/ doc.attemptNumber.t = "number" /\ doc.attemptNumber.n >= 0

SuppliesLatest(entry, doc) ==
    /\ entry.latestAnswers = doc.answers
    /\ entry.latestEvaluations = doc.evaluations

---------------------------------------------------------------------------
(* C3: the summary has exactly one entry per distinct truthy quizId of the *)
(* snapshot, whose count is the number of records of that quizId; records  *)
(* without a quizId contribute to no entry; an empty snapshot gives an     *)
(* empty summary.                                                          *)
C3_CountPerQuiz ==
    /\ DOMAIN summaryByQuiz = QuizIdsOf(ledgerSnap)
    /\ \A q \in DOMAIN summaryByQuiz :
          summaryByQuiz[q].count = Cardinality(DocIndexes(ledgerSnap, q))
    /\ (ledgerSnap = <<>> => summaryByQuiz = EmptyMap)

\* a snapshot holding a record without quizId between two records of q1
C3_Witness ==
    /\ Len(ledgerSnap) = 3
    /\ ledgerSnap[2].quizId = ""
    /\ "q1" \in DOMAIN summaryByQuiz
    /\ summaryByQuiz["q1"].count = 2

(* C4: when two records of one quiz tie on attemptNumber and that number   *)
(* is the quiz's maximum, the one later in the snapshot supplies            *)
(* latestAnswers and latestEvaluations, whatever their attemptedAt.         *)
C4_LaterRecordWinsTie ==
    \A q \in QuizIdsOf(ledgerSnap) :
      \A i, j \in DocIndexes(ledgerSnap, q) :
        ( /\ i < j
          /\ StoredNumber(ledgerSnap[i]) = StoredNumber(ledgerSnap[j])
          /\ \A k \in DocIndexes(ledgerSnap, q) :
                /\ StoredNumber(ledgerSnap[k]) <= StoredNumber(ledgerSnap[j])
                /\ (StoredNumber(ledgerSnap[k]) = StoredNumber(ledgerSnap[j]) => k <= j) )
        => SuppliesLatest(summaryByQuiz[q], ledgerSnap[j])

\* a tie in which the later record carries the earlier attemptedAt
C4_Witness ==
    /\ Len(ledgerSnap) >= 2
    /\ ledgerSnap[1].quizId = "q1" /\ ledgerSnap[2].quizId = "q1"
    /\ ledgerSnap[1].attemptNumber = Num(2) /\ ledgerSnap[2].attemptNumber = Num(2)
    /\ ledgerSnap[1].attemptedAt > ledgerSnap[2].attemptedAt
    /\ ledgerSnap[1].answers # ledgerSnap[2].answers
    /\ \A k \in DocIndexes(ledgerSnap, "q1") : k <= 2
    /\ summaryByQuiz["q1"].latestAnswers = ledgerSnap[2].answers

(* C5: for every entry and every input, also with attemptNumber missing,  *)
(* zero, negative or non-numeric, latestAttemptNumber is the attemptNumber *)
(* of some record of the quiz and latestAnswers and latestEvaluations are  *)
(* those of that record.                                                   *)
C5_LatestIsSomeRecord ==
    \A q \in DOMAIN summaryByQuiz :
      \E i \in DocIndexes(ledgerSnap, q) :
        /\ summaryByQuiz[q].latestAttemptNumber = AttemptNumberOf(ledgerSnap[i])
        /\ SuppliesLatest(summaryByQuiz[q], ledgerSnap[i])

(* What the fold does instead: an entry whose quiz has a record with       *)
(* attemptNumber absent, zero or positive has the (coerced) attemptNumber, *)
(* answers and evaluations of one such record; an entry whose records all  *)
(* carry a negative or non-numeric attemptNumber keeps latestAttemptNumber *)
(* 0 and empty latestAnswers and latestEvaluations, those of no record.    *)
LatestIsSomeSelectableRecord ==
    \A q \in DOMAIN summaryByQuiz :
      IF \E i \in DocIndexes(ledgerSnap, q) : Selectable(ledgerSnap[i])
      THEN \E i \in DocIndexes(ledgerSnap, q) :
              /\ Selectable(ledgerSnap[i])
              /\ summaryByQuiz[q].latestAttemptNumber = Num(StoredNumber(ledgerSnap[i]))
              /\ SuppliesLatest(summaryByQuiz[q], ledgerSnap[i])
      ELSE /\ summaryByQuiz[q].latestAttemptNumber = Num(0)
           /\ summaryByQuiz[q].latestAnswers = EmptyMap
           /\ summaryByQuiz[q].latestEvaluations = EmptyMap

\* a quiz with a non-numeric, a negative and an absent attemptNumber: the
\* record without attemptNumber is the latest
SelectableAmongOthers ==
    /\ Len(ledgerSnap) = 3
    /\ \A i \in 1..3 : ledgerSnap[i].quizId = "q1"
    /\ ledgerSnap[1].attemptNumber = Undefined
    /\ ledgerSnap[2].attemptNumber = Str("abc")
    /\ ledgerSnap[3].attemptNumber = Num(-1)
    /\ ledgerSnap[1].answers = AnswersB /\ ledgerSnap[2].answers = AnswersA
    /\ ledgerSnap[3].answers = AnswersA
    /\ summaryByQuiz["q1"].latestAnswers = AnswersB
    /\ summaryByQuiz["q1"].latestAttemptNumber = Num(0)

(* C6: after any sequence of snapshot deliveries the published summary is  *)
(* the fold of the last snapshot alone, and delivering a snapshot again    *)
(* leaves the summary as it is.                                            *)
C6_SnapshotReplaces ==
    /\ [](summaryByQuiz = SummaryFold(EmptyMap, ledgerSnap))
    /\ [](DOMAIN summaryByQuiz = QuizIdsOf(ledgerSnap))
    /\ [][ledgerSnap' = ledgerSnap => summaryByQuiz' = summaryByQuiz]_vars

\* the summary published before held q1; the last snapshot holds only q2
\* and so does the summary
C6_Witness ==
    /\ "q1" \in ledgerPrevKeys
    /\ Len(ledgerSnap) = 2
    /\ DOMAIN summaryByQuiz = {"q2"}
    /\ summaryByQuiz["q2"].count = 2

\* maxAttempts the claim expects for a stored value of quiz.maxAttempts
C7_ExpectedMaxAttempts(raw) ==
    CASE raw \in {Num(0), Num(-3), Str("abc"), Null, Undefined} -> 1
      [] raw = Frac(3, 7) -> 3
      [] raw.t = "number" /\ (raw.n >= 1 \/ (raw.n = 0 /\ raw.d > 0)) -> raw.n
      [] raw = Str("2") -> 2
      [] OTHER -> 1

(* C7: for a quiz object and any summary, getAttemptInfo returns           *)
(* maxAttempts = floor of the numeric value of quiz.maxAttempts when that  *)
(* is finite and greater than 0, else 1 (0, -3, "abc", null and undefined  *)
(* give 1; 3.7 gives 3); usedAttempts = the summary's count for quiz.id,   *)
(* or 0 without an entry; remainingAttempts = max(0, maxAttempts -         *)
(* usedAttempts), never negative.                                          *)
C7_AttemptInfoValues ==
    (infoResult.called /\ infoQuiz.kind = "object") =>
        LET r == infoResult.value
            expectedUsed ==
                IF infoSummary.present /\ infoQuiz.id \in DOMAIN infoSummary.map
                THEN infoSummary.map[infoQuiz.id].count ELSE 0
        IN  /\ ~r.threw
            /\ r.maxAttempts = C7_ExpectedMaxAttempts(infoQuiz.maxAttempts)
            /\ r.usedAttempts = expectedUsed
            /\ r.remainingAttempts >= 0
            /\ (r.maxAttempts >= r.usedAttempts
                  => r.remainingAttempts = r.maxAttempts - r.usedAttempts)
            /\ (r.usedAttempts > r.maxAttempts => r.remainingAttempts = 0)

\* maxAttempts 3.7 with four attempts used: 3 allowed, none remaining
C7_Witness ==
    /\ infoResult.called
    /\ infoQuiz.kind = "object"
    /\ infoQuiz.id = "q1"
    /\ infoQuiz.maxAttempts = Frac(3, 7)
    /\ infoResult.value.maxAttempts = 3
    /\ infoResult.value.usedAttempts = 4
    /\ infoResult.value.remainingAttempts = 0

(* C8: getAttemptInfo is total: for every quiz argument, a null or         *)
(* undefined quiz included, and every summary, it returns a result and     *)
(* raises no error.                                                        *)
C8_NeverThrows == infoResult.called => ~infoResult.value.threw

---------------------------------------------------------------------------
(* Claims about the student session *)

\* the submitQuiz call has ended after a grading failure, and its write (if
\* it made one) was not rejected
GradingFailedRun ==
    /\ submitRun.stage = "done"
    /\ ~submitRun.gradingData.hasEvaluations
    /\ submitRun.saved # "rejected"

(* C1: whenever submitQuiz passed its attempt-limit check and the grading  *)
(* call failed (gradeSubmission resolved to null or to a payload without   *)
(* evaluations), a submission document holding the student's answers has   *)
(* been created in the submissions collection.                             *)
C1_FailedGradingStillSaved ==
    GradingFailedRun =>
        \E i \in 1..Len(submissions) :
            /\ submissions[i].quizId = submitRun.quiz.id
            /\ submissions[i].answers = submitRun.answers
            /\ submissions[i].attemptNumber = Num(submitRun.usedAttempts + 1)

\* an evaluations object of the fallback shape for a quiz
C2_IsFallback(ev, quiz) ==
    /\ DOMAIN ev = QuestionIds(quiz)
    /\ \A k \in DOMAIN ev :
          ev[k] = [isCorrect |-> FALSE, feedback |-> FallbackFeedback]

(* C2: the outcome of grading a submission has one of two shapes: on       *)
(* grading success gradeStatus is "graded" and the evaluations are the     *)
(* service's; on any grading failure gradeStatus is "needs_teacher_review" *)
(* and the evaluations hold an entry for every question of the quiz, each  *)
(* with isCorrect = false and the same fixed feedback.  It holds of the    *)
(* outcome submitQuiz computes and of every stored submission.             *)
C2_TwoOutcomeShapes ==
    /\ submitRun.stage \in {"saving", "done"} =>
         IF ~submitRun.gradingData.isNull /\ submitRun.gradingData.hasEvaluations
         THEN /\ submitRun.gradeStatus = "graded"
              /\ submitRun.evaluations = submitRun.gradingData.evaluations
         ELSE /\ submitRun.gradeStatus = "needs_teacher_review"
              /\ C2_IsFallback(submitRun.evaluations, submitRun.quiz)
    /\ \A i \in 1..Len(submissions) :
         LET sub == submissions[i]
         IN  \/ /\ sub.gradeStatus = "graded"
                /\ sub.evaluations \in ServiceEvaluations(quizStore[sub.quizId])
             \/ /\ sub.gradeStatus = "needs_teacher_review"
                /\ C2_IsFallback(sub.evaluations, quizStore[sub.quizId])

\* q1 submitted twice: once graded, once after a payload without
\* evaluations, stored with a fallback entry for both questions
C2_Witness ==
    /\ submitRun.stage = "done"
    /\ submitRun.saved = "written"
    /\ submitRun.quiz.id = "q1"
    /\ submitRun.gradingData = GradingNoEvaluations
    /\ Len(submissions) = 2
    /\ \E i, j \in 1..2 :
          /\ submissions[i].gradeStatus = "graded"
          /\ submissions[j].gradeStatus = "needs_teacher_review"
          /\ submissions[j].quizId = "q1"
          /\ DOMAIN submissions[j].evaluations = {"x1", "x2"}

\* startable in the client's current data: not locked, attempts remaining
C9_Startable(q) ==
    /\ q \in DOMAIN allClassQuizzes
    /\ ~allClassQuizzes[q].isLocked
    /\ allClassQuizzes[q].maxAttempts.n
          > (IF q \in DOMAIN summaryByQuiz THEN summaryByQuiz[q].count ELSE 0)

(* C9: a try to start quiz q enters the quiz-taking view for q if and only *)
(* if, in the client's current data, q has attempts remaining and is not   *)
(* locked; otherwise activeQuiz, studentAnswers and view stay as they are. *)
C9_StartIffStartable ==
    [][ \A q \in QuizIds :
          (TryStartQuiz /\ lastTry' = q) =>
             /\ (view' = "quiz" /\ activeQuiz' = allClassQuizzes[q]) <=> C9_Startable(q)
             /\ ~C9_Startable(q) => UNCHANGED <<activeQuiz, studentAnswers, view>>
      ]_vars

\* the last try was for q1, locked in the client's data, and did nothing:
\* the session still holds q2, started before, and shows the list
C9_Witness ==
    /\ lastTry = "q1"
    /\ view = "list"
    /\ activeQuiz.id = "q2"
    /\ selectedClassId = "c1"
    /\ "q1" \in DOMAIN allClassQuizzes
    /\ allClassQuizzes["q1"].isLocked
    /\ "q1" \notin DOMAIN summaryByQuiz

\* what the claim expects the answers of a new attempt at q to be
C10_ExpectedAnswers(q) ==
    IF allClassQuizzes[q].prefillFromLastAttempt = JsTrue
    THEN (IF q \in DOMAIN summaryByQuiz THEN summaryByQuiz[q].latestAnswers ELSE EmptyMap)
    ELSE EmptyMap

(* C10: right after a startQuiz that took effect, studentAnswers is the    *)
(* summary's latestAnswers of the quiz when prefillFromLastAttempt is true *)
(* (empty when the summary has no entry), and empty when it is false or    *)
(* absent.                                                                 *)
C10_SeededFromLastAttempt ==
    [][ \A q \in QuizIds :
          (TryStartQuiz /\ lastTry' = q /\ view' = "quiz") =>
              studentAnswers' = C10_ExpectedAnswers(q)
      ]_vars

\* a second attempt at q1, which prefills, holding the answers of the first
C10_Witness ==
    /\ view = "quiz"
    /\ lastTry = "q1"
    /\ activeQuiz.id = "q1"
    /\ activeQuiz.prefillFromLastAttempt = JsTrue
    /\ submitRun.stage = "done"
    /\ "q1" \in DOMAIN summaryByQuiz
    /\ summaryByQuiz["q1"].latestAnswers # EmptyMap
    /\ studentAnswers = summaryByQuiz["q1"].latestAnswers

---------------------------------------------------------------------------
(* C11: once an attempt has been started on the summary's latestAnswers    *)
(* object (prefill on), an answer edit and every step of submitQuiz leave  *)
(* the submission summary and the client's copy of the history as they     *)
(* are, and leave every stored submission in the collection unchanged; a   *)
(* submission only adds its own document.                                  *)

C11_EditOrSubmitStep ==
    handleAnswerChange \/ SubmitQuiz \/ GradeResolved \/ AddDocResolved \/ AddDocRejected

C11_StoredHistoryUntouched ==
    [][ (answersRef.seededFrom # "" /\ C11_EditOrSubmitStep) =>
            /\ summaryByQuiz' = summaryByQuiz
            /\ ledgerSnap' = ledgerSnap
            /\ \/ submissions' = submissions
               \/ \E i \in 1..Len(submissions') :
                     RemoveAt(submissions', i) = submissions
      ]_vars

\* the second attempt of q1 was started on the answers of the only stored
\* submission, and has been edited since
C11_Witness ==
    /\ answersRef.seededFrom = "q1"
    /\ view = "quiz"
    /\ Len(submissions) = 1
    /\ "q1" \in DOMAIN summaryByQuiz
    /\ summaryByQuiz["q1"].latestAnswers = submissions[1].answers
    /\ DOMAIN submissions[1].answers # {}
    /\ studentAnswers # submissions[1].answers

---------------------------------------------------------------------------
(* C12: the question sequence presented is set by startQuiz and by nothing *)
(* else: a start that takes effect sets it to a permutation of             *)
(* quiz.questions when allowShuffle is true and to quiz.questions in its   *)
(* own order otherwise; every other step (answer edits, submitting, the    *)
(* grading result, the write, quiz and submission snapshots, the teacher's *)
(* saves, going back to the list) leaves it as it is.                      *)

C12_IsPresentationOf(seq, quiz) ==
    IF quiz.allowShuffle
    THEN /\ Len(seq) = Len(quiz.questions)
         /\ \A i \in 1..Len(quiz.questions) :
               Cardinality({ j \in 1..Len(seq) : seq[j] = quiz.questions[i] }) = 1
    ELSE seq = quiz.questions

C12_SequenceFixedAtStart ==
    [][ /\ \A q \in QuizIds :
            (TryStartQuiz /\ lastTry' = q /\ view' = "quiz") =>
                C12_IsPresentationOf(shuffledQuestions', allClassQuizzes[q])
        /\ shuffledQuestions' # shuffledQuestions =>
                (TryStartQuiz /\ view' = "quiz")
      ]_vars

\* q1 presented in the order x2, x1, which is still there after an answer
\* edit, the submission and the arrival of the grading result
C12_Witness ==
    /\ view = "quiz"
    /\ activeQuiz.id = "q1"
    /\ activeQuiz.allowShuffle
    /\ shuffledQuestions = <<"x2", "x1">>
    /\ DOMAIN studentAnswers # {}
    /\ submitRun.stage = "saving"
    /\ submitRun.quiz = activeQuiz

\* q1 without allowShuffle presented in its own order
C12_WitnessUnshuffled ==
    /\ view = "quiz"
    /\ activeQuiz.id = "q1"
    /\ ~activeQuiz.allowShuffle
    /\ shuffledQuestions = <<"x1", "x2">>

---------------------------------------------------------------------------
(* C15: a submitQuiz call that goes on to grading has captured, as its     *)
(* usedAttempts, the number of submissions of the active quiz in the       *)
(* snapshot the client's summary was built from; the document its addDoc   *)
(* stores carries attemptNumber = that number + 1 (attemptNumber 2 after   *)
(* one prior submission of a quiz with maxAttempts 2).                     *)

\* the submissions of quiz q the client has been told of
C15_CountedByClient(q) ==
    Cardinality({ i \in 1..Len(ledgerSnap) : ledgerSnap[i].quizId = q })

C15_AttemptNumberIsCountPlusOne ==
    [][ /\ (SubmitQuiz /\ submitRun'.stage = "grading") =>
                submitRun'.usedAttempts = C15_CountedByClient(activeQuiz.id)
        /\ AddDocResolved =>
                \E i \in 1..Len(submissions') :
                    /\ RemoveAt(submissions', i) = submissions
                    /\ submissions'[i].quizId = submitRun.quiz.id
                    /\ submissions'[i].attemptNumber = Num(submitRun.usedAttempts + 1)
      ]_vars

\* q1 (maxAttempts 2) submitted a second time with one submission counted
C15_Witness ==
    /\ Len(submissions) = 2
    /\ \A i \in 1..2 : submissions[i].quizId = "q1"
    /\ { submissions[i].attemptNumber : i \in 1..2 } = {Num(1), Num(2)}
    /\ submitRun.stage = "done"
    /\ submitRun.saved = "written"
    /\ submitRun.usedAttempts = 1
    /\ submitRun.maxAttempts = 2

---------------------------------------------------------------------------
(* C13: in the attempt history grouped by quiz, the group of a quiz holds  *)
(* exactly the delivered records with that quizId (records without a       *)
(* quizId are in no group), and within a group a record with a higher      *)
(* attemptNumber stands before one with a lower, and of two records with   *)
(* the same attemptNumber the one attempted later stands first; a missing  *)
(* attemptNumber counts as 0 and a missing attemptedAt as the epoch.       *)

\* the instants of the three attemptedAt values, 0 for none
C13_Instant(doc) ==
    IF doc.attemptedAt = IsoT1 THEN 1
    ELSE IF doc.attemptedAt = IsoT2 THEN 2
    ELSE IF doc.attemptedAt = IsoT3 THEN 3 ELSE 0

C13_Precedes(a, b) ==
    \/ StoredNumber(a) > StoredNumber(b)
    \/ StoredNumber(a) = StoredNumber(b) /\ C13_Instant(a) >= C13_Instant(b)

C13_Occurrences(s, doc) == Cardinality({ i \in 1..Len(s) : s[i] = doc })

C13_GroupedAndOrdered ==
    LET grouped == attemptsByQuiz(submissionHistory)
    IN  /\ DOMAIN grouped = { attemptDocs[i].quizId : i \in 1..Len(attemptDocs) } \ {""}
        /\ \A q \in DOMAIN grouped :
              /\ \A doc \in HistoryDocs :
                    C13_Occurrences(grouped[q], doc) =
                        IF doc.quizId = q THEN C13_Occurrences(attemptDocs, doc) ELSE 0
              /\ \A i, j \in 1..Len(grouped[q]) :
                    i < j => C13_Precedes(grouped[q][i], grouped[q][j])

\* attempt 1 at the later instant delivered before attempt 2 at the earlier
\* one: attempt 2 stands first in the group
C13_Witness ==
    /\ attemptDocs = << HistoryDoc("q1", Num(1), IsoT2), HistoryDoc("q1", Num(2), IsoT1) >>
    /\ attemptsByQuiz(submissionHistory)["q1"] =
           << HistoryDoc("q1", Num(2), IsoT1), HistoryDoc("q1", Num(1), IsoT2) >>

---------------------------------------------------------------------------
(* C14: in the teacher's feed, of two entries with different attemptedAt   *)
(* the later one stands first, whatever their attemptNumbers and quizzes   *)
(* (an entry without attemptedAt counts as the earliest); and once the     *)
(* listeners are those of the quizzes the teacher owns and each has        *)
(* delivered the quiz's current submissions, the feed holds exactly the    *)
(* submissions of the owned quizzes.                                       *)

\* every owned quiz has a listener whose last delivery is the store's rows
C14_ListenersUpToDate ==
    /\ feedListeners = feedOwned
    /\ { submissionsByQuiz[i].key : i \in 1..Len(submissionsByQuiz) } = feedOwned
    /\ \A i \in 1..Len(submissionsByQuiz) :
          submissionsByQuiz[i].rows = RowsOfQuiz(feedDocs, submissionsByQuiz[i].key)

C14_FeedMergedByTime ==
    LET feed == filteredSubmissions(teacherSubmissions)
    IN  /\ \A i, j \in 1..Len(teacherSubmissions) :
              C13_Instant(teacherSubmissions[i]) > C13_Instant(teacherSubmissions[j]) => i < j
        /\ feed = teacherSubmissions
        /\ C14_ListenersUpToDate =>
              \A doc \in FeedDocs :
                  C13_Occurrences(feed, doc) =
                      IF doc.quizId \in feedOwned
                      THEN C13_Occurrences(feedDocs, doc) ELSE 0

\* both quizzes owned and delivered, q1's rows first: q2's attempt 1 (the
\* later one) stands before q1's attempt 2
C14_Witness ==
    /\ feedOwned = {"q1", "q2"}
    /\ C14_ListenersUpToDate
    /\ submissionsByQuiz[1].key = "q1"
    /\ teacherSubmissions =
          << HistoryDoc("q2", Num(1), IsoT3), HistoryDoc("q1", Num(2), IsoT1) >>

---------------------------------------------------------------------------
(* C16: each session admits and numbers its submission from its own        *)
(* snapshot alone, and the collection takes every document addDoc sends:   *)
(* submitQuiz goes on to grading exactly when the quiz's submissions in    *)
(* that session's last snapshot are fewer than maxAttempts, with that      *)
(* number as usedAttempts, and addDoc appends a document numbered          *)
(* usedAttempts + 1 whatever the collection holds.  So the state of the    *)
(* witness is reachable: both sessions passed the check with the same      *)
(* usedAttempts, both documents are stored with the same attemptNumber,    *)
(* and the collection holds more submissions than maxAttempts.             *)

C16_CountedIn(s) ==
    Cardinality({ i \in 1..Len(roomSnap[s]) : roomSnap[s][i].quizId = roomQuiz.id })

C16_SessionsCheckTheirOwnSnapshot ==
    [][ \A s \in Sessions :
          /\ RoomSubmitIn(s) =>
                /\ roomSession'[s].phase = "grading"
                      <=> C16_CountedIn(s) < roomSession[s].quiz.maxAttempts.n
                /\ roomSession'[s].phase = "grading"
                      => roomSession'[s].usedAttempts = C16_CountedIn(s)
          /\ RoomAddDocResolvedIn(s) =>
                /\ Len(roomStore') = Len(roomStore) + 1
                /\ SubSeq(roomStore', 1, Len(roomStore)) = roomStore
                /\ roomStore'[Len(roomStore')].attemptNumber
                      = Num(roomSession[s].usedAttempts + 1)
      ]_vars

\* both submitQuiz calls are past the check with the same usedAttempts
C16_BothInFlight ==
    /\ \A s \in Sessions : roomSession[s].phase \in {"grading", "saving"}
    /\ roomSession["a"].usedAttempts = roomSession["b"].usedAttempts

\* both have stored: two documents with the same attemptNumber, and more
\* submissions than the quiz allows
C16_Witness ==
    /\ \A s \in Sessions : roomSession[s].phase = "results"
    /\ roomSession["a"].usedAttempts = roomSession["b"].usedAttempts
    /\ \E i, j \in 1..Len(roomStore) :
          /\ i # j
          /\ roomStore[i].attemptNumber = Num(roomSession["a"].usedAttempts + 1)
          /\ roomStore[j].attemptNumber = Num(roomSession["b"].usedAttempts + 1)
    /\ Len(roomStore) > roomQuiz.maxAttempts.n
    /\ \A s \in Sessions : roomSession[s].quiz = roomQuiz

---------------------------------------------------------------------------
(* C17: every step of the two student sessions and of the teacher either   *)
(* leaves the submissions collection as it is, or is an addDoc of          *)
(* submitQuiz that adds one document and leaves the others as they were,   *)
(* or is a deleteSubmissionAttempt that removes one whole document and     *)
(* leaves the others as they were.                                         *)

C17_AppendOnly ==
    [][ \/ roomStore' = roomStore
        \/ /\ RoomAddDocResolved
           /\ \E i \in 1..Len(roomStore') : RemoveAt(roomStore', i) = roomStore
        \/ /\ RoomDeleteAttempt
           /\ \E i \in 1..Len(roomStore) : RemoveAt(roomStore, i) = roomStore'
      ]_vars

\* session a was told of two submissions; the first has been deleted since
\* and the second is in the collection as it was
C17_Witness ==
    /\ Len(roomSnap["a"]) = 2
    /\ Len(roomStore) = 1
    /\ roomStore[1] = roomSnap["a"][2]
    /\ roomStore[1] # roomSnap["a"][1]

---------------------------------------------------------------------------
(* C18: when a session's submission snapshot is its previous one less one  *)
(* document (a deletion reached the student), usedAttempts of the quiz is  *)
(* one less than before, and remainingAttempts is one more than before     *)
(* whenever usedAttempts before did not exceed maxAttempts.                *)

C18_DeletionGivesAttemptBack ==
    [][ \A s \in Sessions :
          (RoomSnapshotIn(s) /\ roomGaveBack' = s) =>
              LET before == getAttemptInfo(roomQuiz, SummaryObject(roomSummary[s]))
                  after  == getAttemptInfo(roomQuiz, SummaryObject(roomSummary'[s]))
              IN  /\ after.usedAttempts = before.usedAttempts - 1
                  /\ before.usedAttempts <= before.maxAttempts
                        => after.remainingAttempts = before.remainingAttempts + 1
      ]_vars

\* the deletion has reached session a: of two attempts allowed, one is used
\* and one is left
C18_Witness ==
    /\ roomGaveBack = "a"
    /\ roomQuiz.maxAttempts = Num(2)
    /\ RoomAttemptInfo(roomQuiz, "a").usedAttempts = 1
    /\ RoomAttemptInfo(roomQuiz, "a").remainingAttempts = 1

\* the deletion has reached session a, which had used more than allowed:
\* no attempt is left before or after
C18_WitnessOverLimit ==
    /\ roomGaveBack = "a"
    /\ roomQuiz.maxAttempts = Num(1)
    /\ RoomAttemptInfo(roomQuiz, "a").usedAttempts = 2

---------------------------------------------------------------------------
(* The grading proxy's claims (SpecProxy) *)

\* the prompt of this invocation has been built
C19_PromptBuilt == proxyRun.stage = "calling" \/ proxyRun.calls > 0

\* the first cap characters and the marker when longer than cap, else the text
C19_Capped(text, cap) ==
    IF text.len > cap
    THEN [kind |-> "string", base |-> text.base, len |-> cap, ellipsis |-> TRUE]
    ELSE text

\* the questions of the request, [] when `questions` is no array
C19_Asked ==
    IF proxyEvent.body.questions.isArray THEN proxyEvent.body.questions.items ELSE <<>>

\* the prompt holds the first 20 questions at most, in their order
C19_ListCapped ==
    /\ Len(proxyRun.prompt.entries) =
          IF Len(C19_Asked) > MaxQuestions THEN MaxQuestions ELSE Len(C19_Asked)
    /\ \A i \in 1..Len(proxyRun.prompt.entries) :
          proxyRun.prompt.entries[i].id = C19_Asked[i].id

C19_HasText(value) == value.kind = "string" /\ value.len > 0

(* C19 as stated: before anything is sent to the model the proxy keeps at  *)
(* most the first 20 questions, and every title, question text and student *)
(* answer that is there is sent as its first 200 (title) or 1200           *)
(* characters plus the marker when longer, and unchanged otherwise.        *)
C19_EveryFieldCappedOrUnchanged ==
    C19_PromptBuilt =>
        /\ C19_ListCapped
        /\ proxyEvent.body.quizTitle.kind = "string" =>
              proxyRun.prompt.title = C19_Capped(proxyEvent.body.quizTitle, TitleCap)
        /\ \A i \in 1..Len(proxyRun.prompt.entries) :
              /\ C19_Asked[i].text.kind = "string" =>
                    proxyRun.prompt.entries[i].question = C19_Capped(C19_Asked[i].text, FieldCap)
              /\ C19_Asked[i].id \in DOMAIN proxyEvent.body.studentAnswers =>
                    proxyRun.prompt.entries[i].answer =
                        C19_Capped(proxyEvent.body.studentAnswers[C19_Asked[i].id], FieldCap)

(* C19, amended: before anything is sent to the model the proxy keeps at   *)
(* most the first 20 questions; a non-empty title is sent as its first 200 *)
(* characters plus the marker when longer than 200 and unchanged           *)
(* otherwise, a non-empty question text and a non-empty student answer     *)
(* likewise with 1200; a missing title or question text is sent as the     *)
(* empty string, and a missing or empty student answer as the text         *)
(* "No answer provided".                                                   *)
C19_FieldsCapped ==
    C19_PromptBuilt =>
        /\ C19_ListCapped
        /\ proxyRun.prompt.title =
              IF C19_HasText(proxyEvent.body.quizTitle)
              THEN C19_Capped(proxyEvent.body.quizTitle, TitleCap) ELSE EmptyText
        /\ \A i \in 1..Len(proxyRun.prompt.entries) :
              LET asked  == C19_Asked[i]
                  answer == AnswerOf(proxyEvent.body.studentAnswers, asked.id)
              IN  /\ proxyRun.prompt.entries[i].question =
                        IF C19_HasText(asked.text) THEN C19_Capped(asked.text, FieldCap)
                        ELSE EmptyText
                  /\ proxyRun.prompt.entries[i].answer =
                        IF C19_HasText(answer) THEN C19_Capped(answer, FieldCap)
                        ELSE NoAnswerProvided

\* 21 questions asked and 20 sent, a title of 201 characters and a text of
\* 2000 cut with the marker, an answer of 1201 cut, the model being called
C19_Witness ==
    /\ proxyRun.stage = "calling"
    /\ Len(C19_Asked) = MaxQuestions + 1
    /\ Len(proxyRun.prompt.entries) = MaxQuestions
    /\ proxyEvent.body.quizTitle = InputText(TitleCap + 1)
    /\ proxyRun.prompt.title.len = TitleCap /\ proxyRun.prompt.title.ellipsis
    /\ C19_Asked[1].text = InputText(2000)
    /\ proxyRun.prompt.entries[1].question.len = FieldCap
    /\ proxyRun.prompt.entries[1].question.ellipsis
    /\ AnswerOf(proxyEvent.body.studentAnswers, 1) = InputText(FieldCap + 1)
    /\ TextLength(proxyRun.prompt.entries[1].answer) = FieldCap + 3

\* fields exactly at their caps go through as they are
C19_WitnessAtCap ==
    /\ proxyRun.stage = "calling"
    /\ proxyEvent.body.quizTitle = InputText(TitleCap)
    /\ proxyRun.prompt.title = InputText(TitleCap)
    /\ Len(proxyRun.prompt.entries) = MaxQuestions
    /\ proxyRun.prompt.entries[1].question = InputText(FieldCap)
    /\ proxyRun.prompt.entries[1].answer = InputText(FieldCap)

\* an empty answer, below its cap, is sent as the placeholder
C19_WitnessEmptyAnswer ==
    /\ proxyRun.stage = "calling"
    /\ Len(proxyRun.prompt.entries) >= 1
    /\ 1 \in DOMAIN proxyEvent.body.studentAnswers
    /\ proxyEvent.body.studentAnswers[1] = EmptyText
    /\ proxyRun.prompt.entries[1].answer = NoAnswerProvided

\* the request is one the claim is about: not a POST, or a body that does not parse
C20_Rejectable == proxyEvent.httpMethod # "POST" \/ ~proxyEvent.body.parses

(* C20 as stated: a request whose method is not POST, and a POST whose     *)
(* body is not parseable JSON, is answered with a 4xx status and without   *)
(* a call to any model.                                                    *)
C20_RejectedWith4xx ==
    (proxyResponse.returned /\ C20_Rejectable) =>
        /\ proxyResponse.statusCode \in 400..499
        /\ proxyRun.calls = 0

\* what holds of these requests: they are answered at once and no model is
\* called; the status is 405 for a non-POST when the API key is configured
C20_RejectedWithoutModelCall ==
    /\ (C20_Rejectable /\ proxyRun.stage # "received") =>
          /\ proxyResponse.returned
          /\ proxyRun.calls = 0
          /\ proxyResponse.statusCode \in {405, 500}
    /\ (proxyResponse.returned /\ proxyEvent.hasApiKey /\ proxyEvent.httpMethod # "POST") =>
          proxyResponse.statusCode = 405

\* the POST with a body that does not parse, answered 500
C20_MalformedAnswered500 ==
    /\ proxyEvent.hasApiKey /\ proxyEvent.httpMethod = "POST" /\ ~proxyEvent.body.parses
    /\ proxyResponse.returned /\ proxyResponse.statusCode = 500
    /\ proxyRun.calls = 0

\* the calls of this invocation before the last one, and the last one
C21_Earlier == IF proxyRun.log = <<>> THEN <<>> ELSE SubSeq(proxyRun.log, 1, Len(proxyRun.log) - 1)
C21_Last == proxyRun.log[Len(proxyRun.log)]

\* the candidates are called in their order, each at most once
C21_InOrder ==
    /\ Len(proxyRun.log) <= Len(proxyRun.candidates)
    /\ \A i \in 1..Len(proxyRun.log) : proxyRun.log[i].model = proxyRun.candidates[i]

(* C21 as stated: the candidates are tried in order; a candidate is called *)
(* after another only when that one failed with a not-found/404-class      *)
(* error; any other failure, a timeout included, ends the request at once  *)
(* with a 500; a candidate that returned text is the last one called; when *)
(* every candidate failed with not-found the response is a 500.            *)
C21_NextOnlyAfterNotFound ==
    /\ C21_InOrder
    /\ \A i \in 1..Len(C21_Earlier) : C21_Earlier[i].outcome = "notFound"
    /\ (proxyRun.log # <<>> /\ C21_Last.outcome # "notFound") => proxyResponse.returned
    /\ (proxyRun.log # <<>> /\ C21_Last.outcome \in {"error", "timeout"}) =>
          proxyResponse.statusCode = 500
    /\ (Len(proxyRun.log) = Len(proxyRun.candidates) /\ proxyRun.log # <<>>
           /\ C21_Last.outcome = "notFound") =>
          (proxyResponse.returned /\ proxyResponse.statusCode = 500)
    /\ (proxyResponse.returned /\ proxyResponse.statusCode = 200) =>
          (proxyRun.log # <<>> /\ C21_Last.outcome = "evaluations")

\* what holds with a timeout setting whose digits hold no 404 (the default)
C21_HoldsWithDefaultTimeout ==
    ~TimeoutMessageIncludes404(proxyEvent.timeoutMs) => C21_NextOnlyAfterNotFound

\* the first candidate timed out and the second was called all the same
C21_CalledAfterTimeout ==
    /\ Len(proxyRun.log) = 2
    /\ proxyRun.log[1].outcome = "timeout"
    /\ proxyRun.log[2].model = "gemini-2.0-flash"

\* the fallback after a not-found of the first candidate, with its result used
C21_FallbackUsed ==
    /\ Len(proxyRun.log) = 2
    /\ proxyRun.log[1].outcome = "notFound"
    /\ proxyRun.log[2].outcome = "evaluations"
    /\ proxyResponse.statusCode = 200

---------------------------------------------------------------------------
(* The teacher's dashboard: claims (SpecEditor) *)

\* a permission denial: the store's error code says so
C23_IsPermissionDenial(error) == error.code = "permission-denied"

(* C23 as stated: when saving a quiz fails, the message shown for a store  *)
(* error that is a permission denial is different from the message shown   *)
(* for every other error.                                                  *)
C23_DenialMessageDiffers ==
    \A denial \in {e \in StoreErrors : C23_IsPermissionDenial(e)},
       other \in {e \in StoreErrors : ~C23_IsPermissionDenial(e)} :
          edAlert = saveQuizAlert(denial) => edAlert # saveQuizAlert(other)

\* the other copy of saveQuiz (TeacherDashboard.jsx:542-578) does tell them apart
C23_OtherCopyTellsApart ==
    \A denial \in {e \in StoreErrors : C23_IsPermissionDenial(e)},
       other \in {e \in StoreErrors : ~C23_IsPermissionDenial(e)} :
          saveQuizAlert_byCode(denial) # saveQuizAlert_byCode(other)

\* a failed save whose alert is the one of the denial without a message and
\* of the unknown error alike
C23_SameAlertForBoth ==
    /\ edView = "new" /\ edActiveQuiz.present
    /\ edAlert = saveQuizAlert([code |-> "permission-denied", message |-> ""])
    /\ edAlert = saveQuizAlert([code |-> "unavailable", message |-> ""])

(* C25 as stated: no new quiz is ever stored with the classId of a class   *)
(* that is archived at the time of the save.                               *)
C25_NoNewQuizInArchivedClass ==
    edWritten.present => ~edWritten.classArchived

\* a new quiz written into the class c1, archived in the store at that time
C25_WrittenIntoArchivedClass ==
    /\ edWritten.present
    /\ edWritten.doc.classId = "c1"
    /\ edWritten.classArchived
    /\ edClassStore["c1"].isArchived

\* what startNewQuiz does see to: the editor never opens on a class whose
\* row in the dashboard says archived (action property)
C25_StartRefusedWhenRowArchived ==
    [][(startNewQuiz /\ HasSelectedClass /\ classLookup[edSelectedClassId].isArchived)
          => (edView' = "list" /\ edActiveQuiz' = edActiveQuiz)]_vars

\* the ids of a question list are pairwise distinct
C26_Distinct(questions) ==
    \A i, j \in 1..Len(questions) : i # j => questions[i].id # questions[j].id

(* C26 as stated: in every quiz held in the editor and in every quiz       *)
(* written by saveQuiz the ids of the questions are pairwise distinct,     *)
(* two additions within one clock millisecond included.                    *)
C26_QuestionIdsDistinct ==
    /\ C26_Distinct(edActiveQuiz.questions)
    /\ C26_Distinct(edWritten.doc.questions)

\* what holds: questions made in different milliseconds have different ids
C26_DistinctAcrossMilliseconds ==
    [][(addQuestion /\ \A i \in 1..Len(edActiveQuiz.questions) :
                          edActiveQuiz.questions[i].id # QuestionId(edNow))
          => (C26_Distinct(edActiveQuiz.questions) => C26_Distinct(edActiveQuiz'.questions))]_vars

\* a quiz written with two questions of one id
C26_WrittenWithDuplicateIds ==
    /\ edWritten.present
    /\ Len(edWritten.doc.questions) = 2
    /\ edWritten.doc.questions[1].id = edWritten.doc.questions[2].id

---------------------------------------------------------------------------
C24_DefaultClassStays == [][DefaultClasses \subseteq DefaultClasses']_vars

\* C24 (what holds of it): a run whose getDocs finds a default class stores
\* none.
C24_NoCreateAfterFound ==
    [][\A d \in Dashboards :
          (mgDash[d].run.stage = "querying" /\ DefaultClasses # {}
             /\ mgDash'[d].run.stage # "querying")
          => mgClassStore' = mgClassStore]_vars

\* C24: two default classes are stored, one by each dashboard's run.
C24_TwoDefaultClasses ==
    {[id |-> AutoClassId[d], isDefault |-> TRUE] : d \in Dashboards} \subseteq mgClassStore

\* C28: no pass of the effect finds a legacy quiz: the first pass sees the
\* initial quizzes = [] and sets legacyHandled, and every later pass returns
\* at its guard.
C28_MigrationNeverStarts ==
    \A d \in Dashboards :
        /\ mgDash[d].run.stage = "none"
        /\ ~mgDash[d].isMigratingLegacy
        /\ (mgDash[d].mounted /\ mgDash[d].quizzes # StoredQuizzes /\ ~mgDash[d].effectDue)
              => mgDash[d].legacyHandled

\* C28: every quiz without classId that an open dashboard's snapshot holds
\* is eventually assigned the id of a default class.
C28_LegacyEventuallyAssigned ==
    \A d \in Dashboards, q \in MgQuizIds :
        (mgDash[d].mounted /\ q \in DOMAIN mgDash[d].quizzes /\ mgDash[d].quizzes[q] = "")
           ~> (mgQuizStore[q] \in {c.id : c \in DefaultClasses})

\* C28: a dashboard is open, its snapshot holds a quiz without classId, its
\* effect has nothing left to do and the quiz is still unassigned.
C28_DeliveredAndLeft ==
    \E d \in Dashboards, q \in MgQuizIds :
        /\ mgDash[d].mounted /\ mgDash[d].legacyHandled /\ ~mgDash[d].effectDue
        /\ mgDash[d].quizzes = StoredQuizzes
        /\ q \in DOMAIN mgDash[d].quizzes /\ mgQuizStore[q] = ""

\* C28 (what holds of it): once a run is under way and its writes resolve,
\* each legacy quiz it captured carries the id the run settled on.
C28_RunAssignsCaptured ==
    [][\A d \in Dashboards :
          (mgDash[d].run.stage = "assigning" /\ mgDash'[d].run.stage = "none"
             /\ mgQuizStore' # mgQuizStore)
          => \A q \in mgDash[d].run.legacy : mgQuizStore'[q] = mgDash[d].run.defaultId]_vars

---------------------------------------------------------------------------
\* the stored attemptNumbers, in the order of the collection
C27_Numbers == [i \in 1..Len(roomStore) |-> roomStore[i].attemptNumber.n]

\* C27: with one session and the teacher deleting earlier attempts, the
\* attemptNumbers of the stored submissions are pairwise distinct.
C27_NumbersDistinct ==
    \A i, j \in 1..Len(roomStore) : i # j => C27_Numbers[i] # C27_Numbers[j]

\* C27 (second half): each newly created submission carries a number
\* greater than every number already stored.
C27_NewNumberIsGreatest ==
    [][Len(roomStore') = Len(roomStore) + 1
         => \A i \in 1..Len(roomStore) :
               roomStore'[Len(roomStore')].attemptNumber.n > C27_Numbers[i]]_vars

\* C27 (what holds of it): a submission made on a snapshot that shows the
\* whole collection, from which no attempt but the latest was ever deleted,
\* is numbered above all stored ones; here: the numbers stored are 1..n and
\* the call counted n.
C27_GreatestWhenCountIsLatest ==
    [][(/\ Len(roomStore') = Len(roomStore) + 1
        /\ roomSession[TheSession].usedAttempts = Len(roomStore)
        /\ \A i \in 1..Len(roomStore) : C27_Numbers[i] <= Len(roomStore))
         => \A i \in 1..Len(roomStore) :
               roomStore'[Len(roomStore')].attemptNumber.n > C27_Numbers[i]]_vars

\* C27: attempts 1 and 2 were stored, attempt 1 was deleted and the session
\* saw it; the next submission is stored as a second attempt 2.
C27_SecondAttemptTwo ==
    /\ Len(roomStore) = 2
    /\ C27_Numbers[1] = 2 /\ C27_Numbers[2] = 2
    /\ roomSnap[TheSession] = <<roomStore[1]>>

\* C29: with one session, maxAttempts unchanged and nothing deleted, the
\* stored submissions never outnumber the quiz's effective maxAttempts.
C29_WithinMaxAttempts ==
    Len(roomStore) <= getAttemptInfo(roomQuiz, SummaryObject(EmptyMap)).maxAttempts

\* C29 (what holds of it): a submitQuiz call passes its check only when the
\* snapshot the session holds counts fewer submissions than maxAttempts, so
\* the limit holds whenever the session has been delivered the collection.
C29_WithinWhenDelivered ==
    [][(/\ roomSession[TheSession].phase = "quiz"
        /\ roomSession'[TheSession].phase = "grading"
        /\ roomSnap[TheSession] = roomStore)
         => Len(roomStore) < getAttemptInfo(roomQuiz, SummaryObject(EmptyMap)).maxAttempts]_vars

\* C29: more submissions stored than maxAttempts, by the one session, the
\* snapshot with the earlier submission not yet delivered.
C29_OverLimitAlone ==
    /\ Len(roomStore) > getAttemptInfo(roomQuiz, SummaryObject(EmptyMap)).maxAttempts
    /\ roomSession["b"] = RoomSessionAtList

---------------------------------------------------------------------------
\* the step in which the addDoc of the submitQuiz call in flight rejects
C30_WriteFails == submitRun.stage = "saving" /\ submitRun'.saved = "rejected"

=============================================================================
